---- MODULE Spec2Model ----
(***************************************************************************)
(* Model of the chat client of ringrock/audrey5 (the Chat page that sends  *)
(* a conversation turn, reads the newline-delimited JSON answer stream and *)
(* shows it), of the answer parser that numbers citations, and of the      *)
(* provider gateway's normalizer and error classifier as the               *)
(* specification describes them.                                           *)
(*                                                                         *)
(* Text is a sequence of tokens.  On the wire a token is a piece of the    *)
(* JSON framing or one unit of payload text; a network read delivers any   *)
(* non-empty prefix of the tokens in flight.                               *)
(***************************************************************************)
EXTENDS Integers, Sequences, FiniteSets, TLC

\* ----------------------------------------------------------------- bounds
MaxTurns == 2
MaxLines == 2

Turns == 1..MaxTurns

\* ------------------------------------------------------------ wire tokens
\* An envelope opens with one of the tokens "A", "T", "E" (everything up to
\* and including the quote that opens its text) and closes with QE (the quote
\* that closes the text and everything after it).
LB == "{"
RB == "}"
QE == "\"}"
NL == "\n"
Opens == {"A", "T", "E"}

\* Roles of Chat.tsx: const [ASSISTANT, TOOL, ERROR] = ['assistant', 'tool', 'error']
ASSISTANT == "assistant"
TOOL == "tool"
ERROR == "error"
USER == "user"

NO_CONTENT_ERROR == <<"No content in messages object.">>
DefaultErrorNoCosmos == <<"An error occurred. Please try again. If the problem persists, please contact the site administrator.">>
DefaultErrorResponse == <<"Please try again. If the problem persists, please contact the site administrator.">>

\* `{}`: an object without fields; as a ChatMessage it has no role and no content.
EmptyMsg == [role |-> "none", content |-> <<>>]
isEmpty(m) == m.role = "none"

Msg(r, c) == [role |-> r, content |-> c]

\* The user's question of a turn (text only).
UserMessage(t) == Msg(USER, <<"q">>)

\* ------------------------------------------------------- JSON on the wire
\* An envelope with one message of role assistant ("A") or tool ("T"), or an
\* error envelope ("E"), serialised as one line.
Ser(kind, text) == <<kind>> \o text \o <<QE>>

KeepAlive == <<LB, RB>>

\* The parsed value of a text that is no JSON: JSON.parse throws SyntaxError.
SyntaxError == [kind |-> "SyntaxError", text |-> <<>>]
NoResult == [kind |-> "O", text |-> <<>>]

\* JSON.parse: a text is an object exactly when it is `{}` or one whole
\* serialised envelope; inside the quoted text every token but those with a
\* quote (and a raw newline) is allowed.
JSONparse(s) ==
  IF s = KeepAlive THEN NoResult
  ELSE IF /\ Len(s) >= 2
          /\ s[1] \in Opens
          /\ s[Len(s)] = QE
          /\ \A i \in 2..(Len(s) - 1) : s[i] \notin Opens \cup {QE, NL}
       THEN [kind |-> s[1], text |-> SubSeq(s, 2, Len(s) - 1)]
       ELSE SyntaxError

\* text.split('\n'): the pieces between newlines, empty pieces included.
RECURSIVE split(_)
split(text) ==
  IF \A i \in 1..Len(text) : text[i] # NL THEN <<text>>
  ELSE LET k == CHOOSE i \in 1..Len(text) :
                  /\ text[i] = NL
                  /\ \A j \in 1..(i - 1) : text[j] # NL
       IN <<SubSeq(text, 1, k - 1)>> \o split(SubSeq(text, k + 1, Len(text)))

\* ------------------------------------------------- error text (Chat.tsx)
\* Tokens of error texts that the code looks for.
Dash == "-"
innerErrorCue == "{\\'error\\': {\\'message\\': "
CueEnd == "'}}"
EscQuote == "\\'"
Quote == "'"
InnerErrorJailbreak == "'innererror': {jailbreak filtered}}}"
FriendlyMarkers ==
  {"Trop de requetes", "Probleme d'authentification", "Erreur temporaire", "Probleme de connexion"}
RaiPrettyError == <<"The prompt was filtered due to triggering Azure OpenAI's content filtering system.">>

includes(s, tok) == \E i \in 1..Len(s) : s[i] = tok

\* 1-based index of the first occurrence, 0 when absent (JS indexOf + 1).
indexOf1(s, tok) ==
  IF includes(s, tok)
  THEN CHOOSE i \in 1..Len(s) : s[i] = tok /\ \A j \in 1..(i - 1) : s[j] # tok
  ELSE 0

tryGetRaiPrettyError(errorMessage) ==
  IF includes(errorMessage, InnerErrorJailbreak) THEN RaiPrettyError ELSE errorMessage

parseErrorMessage(errorMessage) ==
  IF \E m \in FriendlyMarkers : includes(errorMessage, m) THEN errorMessage
  ELSE LET errorCodeMessage == SubSeq(errorMessage, 1, indexOf1(errorMessage, Dash))
           inner0 == SubSeq(errorMessage, indexOf1(errorMessage, innerErrorCue), Len(errorMessage))
           inner1 == IF inner0[Len(inner0)] = CueEnd THEN SubSeq(inner0, 1, Len(inner0) - 1) ELSE inner0
           inner2 == [i \in 1..Len(inner1) |-> IF inner1[i] = EscQuote THEN Quote ELSE inner1[i]]
       IN tryGetRaiPrettyError(
            IF includes(errorMessage, innerErrorCue)
            THEN errorCodeMessage \o <<" ">> \o inner2
            ELSE errorMessage)

\* --------------------------------------------- the read loop (Chat.tsx)
\* The state one pass of the read loop reads and writes: runningText, result,
\* the closure's assistantContent / assistantMessage / toolMessage, the list
\* last given to setMessages, showLoadingMessage, errorResponseMessage, and
\* what was thrown out of the forEach callback.
LoopState(rt, res, ac, am, tm, msgs, show, erm, proc) ==
  [rt |-> rt, res |-> res, ac |-> ac, am |-> am, tm |-> tm, msgs |-> msgs,
   show |-> show, erm |-> erm, proc |-> proc, thrown |-> "no"]

\* processResultMessage with `assistantContent = resultMessage.content`.
processResultMessageDelta(st, m, user, base, noConv) ==
  LET ac == IF m.role = ASSISTANT THEN m.content ELSE st.ac
      am == IF m.role = ASSISTANT THEN Msg(ASSISTANT, ac) ELSE st.am
      tm == IF m.role = TOOL THEN m ELSE st.tm
      shown == base \o (IF noConv THEN <<user>> ELSE <<>>)
                    \o (IF isEmpty(tm) THEN <<>> ELSE <<tm>>) \o <<am>>
  IN [st EXCEPT !.ac = ac, !.am = am, !.tm = tm, !.msgs = [ref |-> 0, val |-> shown]]

\* processResultMessage(resultMessage, userMessage, conversationId), for an
\* envelope's single message; base is the closure's `messages` array.
processResultMessage(st, m, user, base, noConv) ==
  LET ac == IF m.role = ASSISTANT THEN st.ac \o m.content ELSE st.ac
      am == IF m.role = ASSISTANT THEN Msg(ASSISTANT, ac) ELSE st.am
      tm == IF m.role = TOOL THEN m ELSE st.tm
      shown == base \o (IF noConv THEN <<user>> ELSE <<>>)
                    \o (IF isEmpty(tm) THEN <<>> ELSE <<tm>>) \o <<am>>
  IN [st EXCEPT !.ac = ac, !.am = am, !.tm = tm, !.msgs = [ref |-> 0, val |-> shown]]

\* The read loop without its `throw Error(result.error)`.
neverThrows(res) == FALSE

\* `if (result.error) throw Error(result.error)`: an envelope with a non-empty
\* error field makes the callback throw.
throwOnError(res) == res.kind = "E" /\ res.text # <<>>

\* The message of a parsed envelope of kind "A" or "T".
MessageOf(res) == Msg(IF res.kind = "A" THEN ASSISTANT ELSE TOOL, res.text)

\* The forEach callback of makeApiRequestWithoutCosmosDB, for one piece.
forEachObjNoCosmos(st, obj, user, base, noConv) ==
  IF obj # <<>> /\ obj # KeepAlive
  THEN LET rt == st.rt \o obj
           res == JSONparse(rt)
       IN IF res = SyntaxError THEN [st EXCEPT !.rt = rt]
          ELSE IF res.kind \in {"A", "T"}
          THEN [processResultMessage(
                  [st EXCEPT !.res = res,
                             !.show = IF res.kind = "A" THEN FALSE ELSE st.show],
                  MessageOf(res), user, base, noConv)
                EXCEPT !.rt = <<>>, !.proc = Append(st.proc, res)]
          ELSE IF throwOnError(res)
          THEN [st EXCEPT !.rt = rt, !.res = res, !.thrown = "error",
                          !.proc = Append(st.proc, res)]
          ELSE [st EXCEPT !.rt = <<>>, !.res = res]
  ELSE st

\* The forEach callback of makeApiRequestWithCosmosDB, for one piece.
forEachObjCosmos(st, obj, user, base, noConv) ==
  IF obj # <<>> /\ obj # KeepAlive
  THEN LET rt == st.rt \o obj
           res == JSONparse(rt)
       IN IF res = SyntaxError THEN [st EXCEPT !.rt = rt]
          ELSE IF res.kind = "A" /\ res.text = <<>>
          THEN [st EXCEPT !.rt = rt, !.res = res, !.erm = NO_CONTENT_ERROR,
                          !.thrown = "nocontent"]
          ELSE IF res.kind \in {"A", "T"}
          THEN [processResultMessage(
                  [st EXCEPT !.res = res,
                             !.show = IF res.kind = "A" THEN FALSE ELSE st.show],
                  MessageOf(res), user, base, noConv)
                EXCEPT !.rt = <<>>, !.proc = Append(st.proc, res)]
          ELSE [st EXCEPT !.rt = <<>>, !.res = res,
                          !.proc = IF res.kind = "E" THEN Append(st.proc, res) ELSE st.proc]
  ELSE IF throwOnError(st.res)
       THEN [st EXCEPT !.thrown = "error"]
       ELSE st

forEachObj(st, obj, user, base, noConv, cosmos) ==
  IF cosmos THEN forEachObjCosmos(st, obj, user, base, noConv)
  ELSE forEachObjNoCosmos(st, obj, user, base, noConv)

\* objects.forEach(...): the pieces in order, until the callback throws.
RECURSIVE forEachFrom(_, _, _, _, _, _, _)
forEachFrom(st, objects, i, user, base, noConv, cosmos) ==
  IF i > Len(objects) \/ st.thrown # "no" THEN st
  ELSE forEachFrom(forEachObj(st, objects[i], user, base, noConv, cosmos),
                   objects, i + 1, user, base, noConv, cosmos)

\* One pass of the while loop after reader.read() gave `text`.
readPass(st, text, user, base, noConv, cosmos) ==
  forEachFrom(st, split(text), 1, user, base, noConv, cosmos)

\* ------------------------------------------------------------------ state
VARIABLES
  cosmosDB,            \* appStateContext.state.isCosmosDBAvailable.cosmosDB
  isLoading,           \* Chat: useState isLoading
  showLoadingMessage,  \* Chat: useState showLoadingMessage
  processMessages,     \* Chat: useState processMessages (messageStatus)
  effectDue,           \* the [processMessages] layout effect has to run
  abortFuncs,          \* Chat: abortFuncs.current, newest first
  messages,            \* Chat: useState messages: [ref, val]; ref # 0: the
                       \* array is the messages array of conversation ref
  convs,               \* the conversation objects' messages arrays, by object
  currentChat,         \* appState.currentChat: a conversation object or 0
  chatHistory,         \* appState.chatHistory: the conversation objects in it
  historyUpdates,      \* the message lists given to historyUpdate, in order
  nturns,              \* turns started so far
  nlines,              \* lines the server has sent so far
  pc,                  \* where each turn's request function is
  conversationId,      \* the conversationId argument of each turn (0: none)
  conversation,        \* the conversation object each turn works on (0: none)
  closureMessages,     \* the `messages` each turn's closure captured
  request,             \* the ConversationRequest messages of each turn
  fetches,             \* fetch calls issued by each turn
  aborted,             \* abortController.signal.aborted of each turn
  srv,                 \* the connection of each turn: none, pending, open, aborted
  net,                 \* tokens sent by the server and not yet read
  sentLines,           \* the lines the server sent in each turn
  runningText, result, assistantContent, assistantMessage, toolMessage,
  errorResponseMessage,
  processed            \* the envelopes each turn parsed, in order

clientVars ==
  <<cosmosDB, isLoading, showLoadingMessage, processMessages, effectDue, abortFuncs,
    messages, convs, currentChat, chatHistory, historyUpdates, nturns, nlines, pc,
    conversationId, conversation, closureMessages, request, fetches, aborted, srv,
    net, sentLines, runningText, result, assistantContent, assistantMessage,
    toolMessage, errorResponseMessage, processed>>

\* The provider gateway, as the specification describes it (sections 4.4, 4.5, 5).
VARIABLES
  normState,           \* normalizer state of each request
  textBuffer,          \* the accumulating text buffer of each request
  emitted,             \* the envelopes emitted to the caller, per request
  providerOf,          \* the ProviderId of each request
  classification,      \* the ErrorClassification of each failed request
  cancelled,           \* the caller cancelled the request
  vendorOpen,          \* the vendor connection of the request is open
  uiError,             \* the error text the page shows for the request
  nchunks              \* chunks consumed so far

gatewayVars ==
  <<normState, textBuffer, emitted, providerOf, classification, cancelled, vendorOpen,
    uiError, nchunks>>

\* One call of classify.
VARIABLES
  failureIn,           \* the raw failure given to classify
  providerIn,          \* the providerId given to classify
  classOut             \* what classify returned

classifyVars == <<failureIn, providerIn, classOut>>

\* One answer shown by the Answer component.
VARIABLES
  answer,              \* answer.answer: the citation links of the text, in order
  citations,           \* answer.citations.length
  parsed               \* what parseAnswer returned for the answer

citeVars == <<answer, citations, parsed>>

\* The token budget selector of the backend and the configuration it reads.
VARIABLES
  env,                 \* <PROVIDER>_RESPONSE_<TIER>_MAX_TOKENS of the environment
  proc,                \* the backend process: off, boot, running, failed
  returned,            \* what each call of the selector returned, in order
  requestFailed,       \* a request failed on a missing token setting
  ncalls               \* requests accepted so far

budgetVars == <<env, proc, returned, requestFailed, ncalls>>

\* The image of a question: QuestionInput, and the adapter the request goes to.
VARIABLES
  llmProvider,         \* customizationPreferences.llmProvider
  base64Image,         \* QuestionInput: an image is attached to the question
  historyHasImage,     \* a user message of the conversation has an image part
  sent,                \* the request in the adapter: its provider, whether it has an image part
  reply,               \* what the adapter did with the last request
  nsends               \* questions sent so far

imageVars == <<llmProvider, base64Image, historyHasImage, sent, reply, nsends>>

\* The adapter's wait for the vendor, as the specification describes it (section 5).
VARIABLES
  callPhase,           \* each adapter call: off, waitFirst, streaming, ended, failed
  silence,             \* ticks since the call was made or its last chunk came
  chunksGot,           \* chunks the vendor sent on each call
  failKind             \* the kind the failure of each call was classified as

waitVars == <<callPhase, silence, chunksGot, failKind>>

\* The adapter registry, as the specification describes it (section 4.2).
VARIABLES
  registry,            \* identifiers that have an adapter registered
  regPhase,            \* boot while adapters are registered, serving afterwards
  resolved,            \* what the last resolve was asked and what it gave
  nresolves            \* resolve calls so far

registryVars == <<registry, regPhase, resolved, nresolves>>

\* The application state and the customization panel.
VARIABLES
  appState,            \* AppStateProvider: the state of useReducer
  localStorage,        \* llmProvider of the item userCustomizationPreferences
  started,             \* the mount effects of AppStateProvider have run
  isVisible,           \* CustomizationPanel: useState isVisible
  panelLlmProvider,    \* CustomizationPanel: useState llmProvider
  closeTimers,         \* pending timeouts of handleCloseCustomization
  closeAsked,          \* the user closed the panel and has not toggled it since
  requestProvider      \* `provider` of the last request body

appVars ==
  <<appState, localStorage, started, isVisible, panelLlmProvider, closeTimers,
    closeAsked, requestProvider>>

\* The voice hook of the question input (useVoiceRecognition).
VARIABLES
  isListening,         \* useState isListening
  isWakeWordListening, \* useState isWakeWordListening
  wakeWordMode,        \* useState wakeWordMode
  recognition,         \* the recognizer of manual dictation
  wakeWordRecognition, \* the recognizer of the wake word
  timers,              \* pending timeouts, each with the values its callback closed over
  lastClickTimeRef,    \* zero, or the time of a click: recent (under 300 ms ago) or old
  clicked              \* the microphone was clicked less than 300 ms ago

voiceVars ==
  <<isListening, isWakeWordListening, wakeWordMode, recognition,
    wakeWordRecognition, timers, lastClickTimeRef, clicked>>

\* Reading an answer aloud: the Answer component and the resume of the voice hook.
VARIABLES
  azureSpeechEnabled,  \* frontendSettings.azure_speech_enabled
  isPlaying,           \* Answer: useState isPlaying
  isManualStopRef,     \* Answer: isManualStopRef.current
  azure,               \* where playAudioWithAzure stands
  audio,               \* the Audio element of a playback in one piece
  pending,             \* what the browser still owes for that element
  browser,             \* where playAudioWithBrowser stands
  wasWakeWordActiveBeforePause, \* the hook's ref of that name
  resumeTimers,        \* pending timeouts of resumeVoiceRecognition
  playClosure,         \* the hook's state the callbacks of the playback closed over
  resumeOwed           \* the wake word was listening when a playback not yet settled started

audioVars ==
  <<azureSpeechEnabled, isPlaying, isManualStopRef, azure, audio, pending, browser,
    wasWakeWordActiveBeforePause, resumeTimers, playClosure, resumeOwed>>

laterVars == <<registryVars, appVars, voiceVars, audioVars>>

coreVars ==
  <<clientVars, gatewayVars, classifyVars, citeVars, budgetVars, imageVars, waitVars>>

otherVars ==
  <<gatewayVars, classifyVars, citeVars, budgetVars, imageVars, waitVars, laterVars>>

Value(v) == [ref |-> 0, val |-> v]
ArrayOf(c) == [ref |-> c, val |-> <<>>]

\* The elements of a `messages` array as the code reads it now.
Elems(m) == IF m.ref # 0 THEN convs[m.ref] ELSE m.val
ElemsIn(m, cv) == IF m.ref # 0 THEN cv[m.ref] ELSE m.val

InFlight(t) == pc[t] \in {"fetch", "read"}

\* A status enum whose Processing is the value of Done.
messageStatusDoneEarly ==
  [NotRunning |-> "NotRunning", Processing |-> "Done", Done |-> "Done"]

\* const enum messageStatus
messageStatus ==
  [NotRunning |-> "NotRunning", Processing |-> "Processing", Done |-> "Done"]

ClientInit ==
  /\ cosmosDB \in BOOLEAN
  /\ isLoading = FALSE
  /\ showLoadingMessage = FALSE
  /\ processMessages = messageStatus.NotRunning
  /\ effectDue = FALSE
  /\ abortFuncs = <<>>
  /\ messages = Value(<<>>)
  /\ convs = [c \in Turns |-> <<>>]
  /\ currentChat = 0
  /\ chatHistory = {}
  /\ historyUpdates = <<>>
  /\ nturns = 0
  /\ nlines = 0
  /\ pc = [t \in Turns |-> "idle"]
  /\ conversationId = [t \in Turns |-> 0]
  /\ conversation = [t \in Turns |-> 0]
  /\ closureMessages = [t \in Turns |-> Value(<<>>)]
  /\ request = [t \in Turns |-> <<>>]
  /\ fetches = [t \in Turns |-> 0]
  /\ aborted = [t \in Turns |-> FALSE]
  /\ srv = [t \in Turns |-> "none"]
  /\ net = [t \in Turns |-> <<>>]
  /\ sentLines = [t \in Turns |-> <<>>]
  /\ runningText = [t \in Turns |-> <<>>]
  /\ result = [t \in Turns |-> NoResult]
  /\ assistantContent = [t \in Turns |-> <<>>]
  /\ assistantMessage = [t \in Turns |-> EmptyMsg]
  /\ toolMessage = [t \in Turns |-> EmptyMsg]
  /\ errorResponseMessage = [t \in Turns |-> DefaultErrorResponse]
  /\ processed = [t \in Turns |-> <<>>]

\* A filter that lets no message through.
filterAll(ms) == <<>>

\* messages.filter(answer => answer.role !== ERROR)
RECURSIVE filterNotError(_)
filterNotError(ms) ==
  IF ms = <<>> THEN <<>>
  ELSE (IF Head(ms).role # ERROR THEN <<Head(ms)>> ELSE <<>>) \o filterNotError(Tail(ms))

\* abortFuncs.current.filter(a => a !== abortController)
RECURSIVE filterNot(_, _)
filterNot(fs, t) ==
  IF fs = <<>> THEN <<>>
  ELSE (IF Head(fs) # t THEN <<Head(fs)>> ELSE <<>>) \o filterNot(Tail(fs), t)

\* No promise reaction or effect of the page is still to run: the browser
\* handles the next user event only then.
Quiescent ==
  /\ ~effectDue
  /\ \A t \in Turns : ~(InFlight(t) /\ aborted[t])

\* The loop state of turn t, as its closure and the page hold it now.
CurSt(t) ==
  LoopState(runningText[t], result[t], assistantContent[t], assistantMessage[t],
            toolMessage[t], messages, showLoadingMessage, errorResponseMessage[t],
            processed[t])

\* fetch without `signal: abortSignal`: aborting the controller does nothing.
noSignal(s) == s

\* fetch(..., { signal: abortSignal }): aborting the controller ends the pending
\* fetch or the open response body, whose next read rejects.
signalAbort(s) == IF s \in {"pending", "open"} THEN "aborted" ELSE s

\* Envelopes with a message carry history_metadata; `{}` and error envelopes do not.
HasHistoryMetadata(res) == res.kind \in {"A", "T"}

\* The closure variables of a turn, written back from a loop state.
SetClosure(t, st) ==
  /\ runningText' = [runningText EXCEPT ![t] = st.rt]
  /\ result' = [result EXCEPT ![t] = st.res]
  /\ assistantContent' = [assistantContent EXCEPT ![t] = st.ac]
  /\ assistantMessage' = [assistantMessage EXCEPT ![t] = st.am]
  /\ toolMessage' = [toolMessage EXCEPT ![t] = st.tm]
  /\ errorResponseMessage' = [errorResponseMessage EXCEPT ![t] = st.erm]
  /\ processed' = [processed EXCEPT ![t] = st.proc]

\* The finally block without its setIsLoading(false).
keepIsLoading(cur, v) == cur

\* setIsLoading(v) of the finally block: the state after it, from the state before.
setIsLoading(cur, v) == v

\* The closure variables of a turn whose function returned are gone; `result`,
\* what the turn ended on, is kept to state what the page shows for it.
DropClosure(t, st) ==
  /\ runningText' = [runningText EXCEPT ![t] = <<>>]
  /\ result' = [result EXCEPT ![t] = st.res]
  /\ assistantContent' = [assistantContent EXCEPT ![t] = <<>>]
  /\ assistantMessage' = [assistantMessage EXCEPT ![t] = EmptyMsg]
  /\ toolMessage' = [toolMessage EXCEPT ![t] = EmptyMsg]
  /\ errorResponseMessage' = [errorResponseMessage EXCEPT ![t] = DefaultErrorResponse]
  /\ processed' = [processed EXCEPT ![t] = <<>>]
  /\ sentLines' = [sentLines EXCEPT ![t] = <<>>]

\* A catch block that sends the request again when the turn failed.
fetchAgain(n, outcome) == IF outcome = "failed" THEN n + 1 ELSE n

\* The fetch calls of a turn after its catch and finally blocks: they issue none.
fetchesAfter(n, outcome) == n

\* The finally block, after the try or catch block left the page with messages
\* msgs2, conversations convs2 and current chat curr2; then, unless the try
\* block returned early, `return abortController.abort()`.
FinallyR(t, outcome, st, msgs2, convs2, curr2, early) ==
  /\ pc' = [pc EXCEPT ![t] = outcome]
  /\ isLoading' = setIsLoading(isLoading, FALSE)
  /\ showLoadingMessage' = FALSE
  /\ abortFuncs' = filterNot(abortFuncs, t)
  /\ processMessages' = messageStatus.Done
  /\ effectDue' = (effectDue \/ processMessages # messageStatus.Done)
  /\ aborted' = [aborted EXCEPT ![t] = IF early THEN @ ELSE TRUE]
  /\ srv' = [srv EXCEPT ![t] = IF early THEN @ ELSE signalAbort(@)]
  /\ net' = [net EXCEPT ![t] = <<>>]
  /\ messages' = msgs2
  /\ convs' = convs2
  /\ currentChat' = curr2
  /\ DropClosure(t, st)
  /\ fetches' = [fetches EXCEPT ![t] = fetchesAfter(@, outcome)]
  /\ UNCHANGED otherVars
  /\ UNCHANGED <<cosmosDB, chatHistory, historyUpdates, nturns, nlines, conversationId,
                 conversation, closureMessages, request>>

Finally(t, outcome, st, msgs2, convs2, curr2) ==
  FinallyR(t, outcome, st, msgs2, convs2, curr2, FALSE)

\* [...messages, ...tail] in turn t's closure, read when the conversations are cv.
Spread(t, cv, tail) == Value(ElemsIn(closureMessages[t], cv) \o tail)

ToolAndAssistant(st) == (IF isEmpty(st.tm) THEN <<>> ELSE <<st.tm>>) \o <<st.am>>

\* catch (e) of makeApiRequestWithoutCosmosDB.
CatchNoCosmos(t, st) ==
  IF ~aborted[t]
  THEN LET errorMessage == parseErrorMessage(
                             IF st.res.kind = "E" /\ st.res.text # <<>>
                             THEN st.res.text ELSE DefaultErrorNoCosmos)
           errorChatMsg == Msg(ERROR, errorMessage)
           c == conversation[t]
           convs2 == [convs EXCEPT ![c] = Append(@, errorChatMsg)]
       IN Finally(t, "failed", st, Spread(t, convs2, <<errorChatMsg>>), convs2, c)
  ELSE Finally(t, "aborted", st, Spread(t, convs, <<UserMessage(t)>>), convs, currentChat)

\* catch (e) of makeApiRequestWithCosmosDB.
CatchCosmos(t, st) ==
  IF ~aborted[t]
  THEN LET errorMessage == parseErrorMessage(
                             IF st.res.kind = "E" /\ st.res.text # <<>>
                             THEN st.res.text ELSE <<"An error occurred. ">> \o st.erm)
           errorChatMsg == Msg(ERROR, errorMessage)
           c == conversationId[t]
       IN IF c # 0
          THEN LET convs2 == [convs EXCEPT ![c] = Append(@, errorChatMsg)]
               IN Finally(t, "failed", st, Spread(t, convs2, <<errorChatMsg>>), convs2, c)
          ELSE IF ~HasHistoryMetadata(st.res)
          THEN \* returns from inside the catch block
               FinallyR(t, "failed", st, Spread(t, convs, <<UserMessage(t), errorChatMsg>>),
                        convs, currentChat, TRUE)
          ELSE LET convs2 == [convs EXCEPT ![t] = <<UserMessage(t), errorChatMsg>>]
               IN Finally(t, "failed", st, Spread(t, convs2, <<errorChatMsg>>), convs2, t)
  ELSE Finally(t, "aborted", st, Spread(t, convs, <<UserMessage(t)>>), convs, currentChat)

Catch(t, st) == IF cosmosDB THEN CatchCosmos(t, st) ELSE CatchNoCosmos(t, st)

\* -------------------------------------------------------------- actions
\* A question input that is never disabled.
neverDisabled == FALSE

\* <QuestionInput disabled={isLoading} ...>: sendQuestion returns when disabled.
disabled == isLoading

\* The user sends a question: onSend of QuestionInput, which is disabled while
\* isLoading, calls makeApiRequestWith(out)CosmosDB; the function runs up to
\* its first await, the fetch.
Send ==
  /\ ~disabled
  /\ Quiescent
  /\ nturns < MaxTurns
  /\ LET t == nturns + 1
         user == UserMessage(t)
         cid == currentChat
         c == IF cid = 0 THEN t ELSE cid
         pushed == [convs EXCEPT ![c] = Append(@, user)]
         found == cid \in chatHistory
     IN /\ nturns' = t
        /\ conversationId' = [conversationId EXCEPT ![t] = cid]
        /\ closureMessages' = [u \in Turns |-> IF u = t THEN messages ELSE Value(<<>>)]
        /\ IF cosmosDB /\ cid # 0 /\ ~found
           THEN /\ isLoading' = FALSE
                /\ showLoadingMessage' = FALSE
                /\ abortFuncs' = abortFuncs
                /\ pc' = [pc EXCEPT ![t] = "notfound"]
                /\ UNCHANGED <<fetches, srv, convs, currentChat, messages, conversation>>
                /\ request' = [u \in Turns |-> <<>>]
           ELSE /\ isLoading' = TRUE
                /\ showLoadingMessage' = TRUE
                /\ abortFuncs' = <<t>> \o abortFuncs
                /\ pc' = [pc EXCEPT ![t] = "fetch"]
                /\ fetches' = [fetches EXCEPT ![t] = @ + 1]
                /\ srv' = [srv EXCEPT ![t] = "pending"]
                /\ IF ~cosmosDB
                   THEN /\ convs' = pushed
                        /\ currentChat' = c
                        /\ messages' = ArrayOf(c)
                        /\ conversation' = [conversation EXCEPT ![t] = c]
                        /\ request' = [u \in Turns |->
                                         IF u = t THEN filterNotError(pushed[c]) ELSE <<>>]
                   ELSE IF cid # 0
                   THEN /\ convs' = pushed
                        /\ conversation' = [conversation EXCEPT ![t] = c]
                        /\ request' = [u \in Turns |->
                                         IF u = t THEN filterNotError(pushed[c]) ELSE <<>>]
                        /\ UNCHANGED <<currentChat, messages>>
                   ELSE /\ request' = [u \in Turns |-> IF u = t THEN <<user>> ELSE <<>>]
                        /\ messages' = Value(<<user>>)
                        /\ UNCHANGED <<convs, currentChat, conversation>>
        \* a new call starts from `let result = {} as ChatResponse`
        /\ result' = [u \in Turns |-> NoResult]
        /\ UNCHANGED otherVars
        /\ UNCHANGED <<cosmosDB, processMessages, effectDue, chatHistory, historyUpdates,
                       nlines, aborted, net, sentLines, runningText,
                       assistantContent, assistantMessage, toolMessage,
                       errorResponseMessage, processed>>

\* The fetch resolves with a response that has a body (conversationApi does not
\* look at the status; historyGenerate's caller found response.ok).
FetchOk(t) ==
  /\ pc[t] = "fetch"
  /\ srv[t] = "pending"
  /\ pc' = [pc EXCEPT ![t] = "read"]
  /\ srv' = [srv EXCEPT ![t] = "open"]
  /\ UNCHANGED otherVars
  /\ UNCHANGED <<cosmosDB, isLoading, showLoadingMessage, processMessages, effectDue,
                 abortFuncs, messages, convs, currentChat, chatHistory, historyUpdates,
                 nturns, nlines, conversationId, conversation, closureMessages, request,
                 fetches, aborted, net, sentLines, runningText, result, assistantContent,
                 assistantMessage, toolMessage, errorResponseMessage, processed>>

\* ------------------------------------------------ what the server may send
MsgTexts == {<<>>, <<"H">>}
FriendlyError == <<"Trop de requetes", "CLAUDE">>
RawError == <<"Error code: 400", Dash, innerErrorCue, EscQuote, "vendor text", CueEnd>>
\* a fragment that is no JSON and never becomes JSON
Fragment == <<":">>
Lines ==
  {Ser("A", x) : x \in MsgTexts} \cup {Ser("T", <<LB, RB>>), Ser("E", FriendlyError)}
    \cup {KeepAlive, Fragment}
\* responseJson.error of a response that is not ok; <<>> stands for undefined
JsonErrors == {<<>>, FriendlyError, RawError}

\* historyGenerate resolved with a response that is not ok.
FetchNotOk(t, err) ==
  /\ cosmosDB
  /\ pc[t] = "fetch"
  /\ srv[t] = "pending"
  /\ LET erm == IF err = <<>> THEN errorResponseMessage[t] ELSE parseErrorMessage(err)
         errorChatMsg ==
           Msg(ERROR, <<"There was an error generating a response. Chat history can't be saved at this time. ">> \o erm)
         c == conversationId[t]
         st == [CurSt(t) EXCEPT !.erm = erm]
         convs2 == [convs EXCEPT ![c] = Append(@, errorChatMsg)]
     IN IF c # 0
        THEN FinallyR(t, "failed", st, Value(convs2[c]), convs2, c, TRUE)
        ELSE FinallyR(t, "failed", st, Spread(t, convs, <<UserMessage(t), errorChatMsg>>),
                      convs, currentChat, TRUE)

\* The fetch rejects (the network failed before a response came).
\* conversationApi lets the rejection through to the catch block;
\* historyGenerate catches it and returns `new Response()`, which is ok and
\* has no body, so the try block falls through to finally.
FetchReject(t) ==
  /\ pc[t] = "fetch"
  /\ srv[t] = "pending"
  /\ IF cosmosDB
     THEN Finally(t, "nobody", CurSt(t), messages, convs, currentChat)
     ELSE CatchNoCosmos(t, CurSt(t))

\* The tokens of lines, each followed by its newline.
RECURSIVE Wire(_)
Wire(lines) == IF lines = <<>> THEN <<>> ELSE Head(lines) \o <<NL>> \o Wire(Tail(lines))

\* The server writes one line to the response body; an error envelope is the
\* last line it writes.  A read cannot tell tokens sent early from tokens sent
\* just before it, so the server is let run ahead of the reader: it writes
\* while nothing has been read yet.
ServerSend(t, line) ==
  /\ srv[t] = "open"
  /\ nlines < MaxLines
  /\ net[t] = Wire(sentLines[t])
  /\ \A i \in 1..Len(sentLines[t]) : JSONparse(sentLines[t][i]).kind # "E"
  /\ nlines' = nlines + 1
  /\ net' = [net EXCEPT ![t] = @ \o line \o <<NL>>]
  /\ sentLines' = [sentLines EXCEPT ![t] = Append(@, line)]
  /\ UNCHANGED otherVars
  /\ UNCHANGED <<cosmosDB, isLoading, showLoadingMessage, processMessages, effectDue,
                 abortFuncs, messages, convs, currentChat, chatHistory, historyUpdates,
                 nturns, pc, conversationId, conversation, closureMessages, request,
                 fetches, aborted, srv, runningText, result, assistantContent,
                 assistantMessage, toolMessage, errorResponseMessage, processed>>

\* reader.read() resolves with the first k tokens in flight, and the loop body
\* runs on them; an exception out of it runs the catch block.
Read(t, k) ==
  /\ pc[t] = "read"
  /\ srv[t] = "open"
  /\ k \in 1..Len(net[t])
  /\ LET st == readPass(CurSt(t), SubSeq(net[t], 1, k), UserMessage(t),
                        Elems(closureMessages[t]), conversationId[t] = 0, cosmosDB)
     IN IF st.thrown = "no"
        THEN /\ SetClosure(t, st)
             /\ messages' = st.msgs
             /\ showLoadingMessage' = st.show
             /\ processMessages' = messageStatus.Processing
             \* the [processMessages] effect does nothing unless it finds Done
             /\ effectDue' = (effectDue \/ (/\ processMessages # messageStatus.Processing
                                             /\ messageStatus.Processing = messageStatus.Done))
             /\ net' = [net EXCEPT ![t] = SubSeq(@, k + 1, Len(@))]
             /\ UNCHANGED otherVars
             /\ UNCHANGED <<cosmosDB, isLoading, abortFuncs, convs, currentChat,
                            chatHistory, historyUpdates, nturns, nlines, pc, conversationId,
                            conversation, closureMessages, request, fetches, aborted, srv,
                            sentLines>>
        ELSE Catch(t, st)

\* reader.read() rejects: the connection broke.  Tokens still in flight are lost.
ReadFail(t) ==
  /\ pc[t] = "read"
  /\ srv[t] = "open"
  /\ Catch(t, CurSt(t))

\* reader.read() resolves with done, which it does once the server has ended
\* the body and everything sent was read: the code after the loop.
ReadDone(t) ==
  /\ pc[t] = "read"
  /\ srv[t] = "open"
  /\ net[t] = <<>>
  /\ LET st == CurSt(t)
         cid == conversationId[t]
     IN IF ~cosmosDB
        THEN \* conversation.messages.push(toolMessage, assistantMessage)
             LET c == conversation[t]
                 convs2 == [convs EXCEPT ![c] = @ \o <<st.tm, st.am>>]
             IN Finally(t, "completed", st, Spread(t, convs2, <<st.tm, st.am>>), convs2, c)
        ELSE IF cid # 0
        THEN LET convs2 == [convs EXCEPT ![cid] = @ \o ToolAndAssistant(st)]
             IN Finally(t, "completed", st, Spread(t, convs2, ToolAndAssistant(st)),
                        convs2, cid)
        ELSE IF ~HasHistoryMetadata(st.res)
        THEN \* result.history_metadata.conversation_id throws a TypeError
             CatchCosmos(t, st)
        ELSE LET convs2 == [convs EXCEPT ![t] = <<UserMessage(t)>> \o ToolAndAssistant(st)]
             IN Finally(t, "completed", st, Spread(t, convs2, ToolAndAssistant(st)),
                        convs2, t)

\* stopGenerating: the button is rendered while isLoading and messages exist.
Stop ==
  /\ isLoading
  /\ Len(Elems(messages)) > 0
  /\ Quiescent
  /\ aborted' = [t \in Turns |-> aborted[t] \/ \E i \in 1..Len(abortFuncs) : abortFuncs[i] = t]
  /\ srv' = [t \in Turns |->
               IF \E i \in 1..Len(abortFuncs) : abortFuncs[i] = t
               THEN signalAbort(srv[t]) ELSE srv[t]]
  /\ showLoadingMessage' = FALSE
  /\ isLoading' = FALSE
  /\ UNCHANGED otherVars
  /\ UNCHANGED <<cosmosDB, processMessages, effectDue, abortFuncs, messages, convs,
                 currentChat, chatHistory, historyUpdates, nturns, nlines, pc,
                 conversationId, conversation, closureMessages, request, fetches, net,
                 sentLines, runningText, result, assistantContent, assistantMessage,
                 toolMessage, errorResponseMessage, processed>>

\* The pending fetch or read of an aborted turn rejects with an AbortError.
AbortSeen(t) ==
  /\ InFlight(t)
  /\ srv[t] = "aborted"
  /\ IF cosmosDB /\ pc[t] = "fetch"
     THEN Finally(t, "nobody", CurSt(t), messages, convs, currentChat)
     ELSE Catch(t, CurSt(t))

\* A find that finds no message.
findsNothing(ms) == FALSE

\* currentChat.messages.find(m => m.role === ERROR), as the `if` reads it
noContentError(ms) == \E i \in 1..Len(ms) : ms[i].role = ERROR

\* The layout effect on [processMessages], run after the render that follows
\* the finally block.
RenderEffect ==
  /\ effectDue
  /\ effectDue' = FALSE
  /\ UNCHANGED otherVars
  /\ IF currentChat # 0 /\ processMessages = messageStatus.Done
     THEN /\ historyUpdates' =
               IF cosmosDB /\ ~noContentError(convs[currentChat])
               THEN Append(historyUpdates, convs[currentChat])
               ELSE historyUpdates
          \* UPDATE_CHAT_HISTORY: chatHistory is null without CosmosDB
          /\ chatHistory' = IF cosmosDB THEN chatHistory \cup {currentChat} ELSE chatHistory
          /\ messages' = ArrayOf(currentChat)
          /\ processMessages' = messageStatus.NotRunning
     ELSE UNCHANGED <<historyUpdates, chatHistory, messages, processMessages>>
  /\ UNCHANGED <<cosmosDB, isLoading, showLoadingMessage, abortFuncs, convs, currentChat,
                 nturns, nlines, pc, conversationId, conversation, closureMessages,
                 request, fetches, aborted, srv, net, sentLines, runningText, result,
                 assistantContent, assistantMessage, toolMessage, errorResponseMessage,
                 processed>>

\* ======================================================= provider gateway
\* The gateway is described by the specification only (sections 3, 4.4, 4.5, 5).
MaxRequests == 2
MaxChunks == 3

Requests == 1..MaxRequests
Providers == {"CLAUDE", "AZURE"}
ErrorKinds ==
  {"RateLimit", "AuthFailure", "BadRequest", "ServerError", "NetworkFailure",
   "QuotaExceeded", "ContentFiltered", "Unknown"}
HttpStatuses == {400, 401, 403, 404, 429, 500, 503}
VendorTexts == {<<"vendor wording">>, RawError}

\* A raw failure: a transport failure has no HTTP status; quota and policy say
\* whether the vendor's error body carries the quota or the content-policy marker.
Failures ==
  [transport : {TRUE}, status : {0}, quota : BOOLEAN, policy : BOOLEAN, raw : VendorTexts]
    \cup [transport : {FALSE}, status : HttpStatuses, quota : BOOLEAN, policy : BOOLEAN,
          raw : VendorTexts]

NoFailure == [transport |-> FALSE, status |-> 0, quota |-> FALSE, policy |-> FALSE, raw |-> <<>>]
NoClassification ==
  [kind |-> "none", providerId |-> "none", userMessage |-> <<>>, rawDetail |-> <<>>]

\* classify with the vendor's markers looked at before the HTTP status.
classifyMarkersFirst(failure) ==
  IF failure.quota THEN "QuotaExceeded"
  ELSE IF failure.policy THEN "ContentFiltered"
  ELSE IF ~failure.transport /\ failure.status = 429 THEN "RateLimit"
  ELSE IF ~failure.transport /\ failure.status \in {401, 403} THEN "AuthFailure"
  ELSE IF ~failure.transport /\ failure.status = 400 THEN "BadRequest"
  ELSE IF ~failure.transport /\ failure.status >= 500 THEN "ServerError"
  ELSE IF failure.transport THEN "NetworkFailure"
  ELSE "Unknown"

\* The rule table of classify, in its priority order.
classifyKind(failure) ==
  IF ~failure.transport /\ failure.status = 429 THEN "RateLimit"
  ELSE IF ~failure.transport /\ failure.status \in {401, 403} THEN "AuthFailure"
  ELSE IF ~failure.transport /\ failure.status = 400 THEN "BadRequest"
  ELSE IF ~failure.transport /\ failure.status >= 500 THEN "ServerError"
  ELSE IF failure.transport THEN "NetworkFailure"
  ELSE IF failure.quota THEN "QuotaExceeded"
  ELSE IF failure.policy THEN "ContentFiltered"
  ELSE "Unknown"

\* The fixed wording of each kind's template.  The page knows four of them
\* (parseErrorMessage); the others stand for a fixed text without vendor words.
Wording ==
  [k \in ErrorKinds |->
     CASE k = "RateLimit" -> "Trop de requetes"
       [] k = "AuthFailure" -> "Probleme d'authentification"
       [] k = "ServerError" -> "Erreur temporaire"
       [] k = "NetworkFailure" -> "Probleme de connexion"
       [] k = "BadRequest" -> "template BadRequest"
       [] k = "QuotaExceeded" -> "template QuotaExceeded"
       [] k = "ContentFiltered" -> "template ContentFiltered"
       [] OTHER -> "template Unknown"]

\* A template that quotes the vendor's text.
userMessageWithDetail(kind, providerId, failure) == <<Wording[kind], providerId>> \o failure.raw

\* The template of a kind, parameterized by the provider only.
userMessageOf(kind, providerId, failure) == <<Wording[kind], providerId>>

classify(providerId, failure) ==
  [kind |-> classifyKind(failure),
   providerId |-> providerId,
   userMessage |-> userMessageOf(classifyKind(failure), providerId, failure),
   rawDetail |-> failure.raw]

\* A NormalizedEnvelope: the assistant content, the error field (<<>>: none),
\* and whether it is the terminal envelope of its turn.
Envelope(content, error, terminal) ==
  [content |-> content, error |-> error, terminal |-> terminal]

\* A normalizer that goes on consuming chunks after a terminal chunk.
ConsumesAlways(state) == state # "Idle"

\* The normalizer consumes chunks in state Streaming only.
Consumes(state) == state = "Streaming"

DeltaChunks == {<<"Hello">>, <<" world">>}

\* One text buffer that every request appends to.
SharedBuffer(r) == 1

\* The text buffer of a request is its own: a turn is one independent unit of
\* work, with no mutable state shared between turns in flight.
BufferOf(r) == r

GatewayInit ==
  /\ normState = [r \in Requests |-> "Idle"]
  /\ textBuffer = [r \in Requests |-> <<>>]
  /\ emitted = [r \in Requests |-> <<>>]
  /\ providerOf = [r \in Requests |-> "none"]
  /\ classification = [r \in Requests |-> NoClassification]
  /\ cancelled = [r \in Requests |-> FALSE]
  /\ vendorOpen = [r \in Requests |-> FALSE]
  /\ uiError = [r \in Requests |-> <<>>]
  /\ nchunks = 0

\* The entry point starts a turn: the adapter call is made.
Begin(r, p) ==
  /\ normState[r] = "Idle"
  /\ normState' = [normState EXCEPT ![r] = "Streaming"]
  /\ providerOf' = [providerOf EXCEPT ![r] = p]
  /\ vendorOpen' = [vendorOpen EXCEPT ![r] = TRUE]
  /\ UNCHANGED <<textBuffer, emitted, classification, cancelled, uiError, nchunks>>
  /\ UNCHANGED <<clientVars, classifyVars, citeVars, budgetVars, imageVars, waitVars, laterVars>>

\* TextDelta: append to the buffer, emit the buffer's full value.
OnTextDelta(r, text) ==
  /\ Consumes(normState[r]) /\ ~cancelled[r]
  /\ nchunks < MaxChunks
  /\ nchunks' = nchunks + 1
  /\ textBuffer' = [textBuffer EXCEPT ![BufferOf(r)] = @ \o text]
  /\ emitted' = [emitted EXCEPT ![r] =
                   Append(@, Envelope(textBuffer[BufferOf(r)] \o text, <<>>, FALSE))]
  /\ UNCHANGED <<normState, providerOf, classification, cancelled, vendorOpen, uiError>>
  /\ UNCHANGED <<clientVars, classifyVars, citeVars, budgetVars, imageVars, waitVars, laterVars>>

\* StreamEnd: Completed, a final envelope with the content unchanged.
OnStreamEnd(r) ==
  /\ Consumes(normState[r]) /\ ~cancelled[r]
  /\ nchunks < MaxChunks
  /\ nchunks' = nchunks + 1
  /\ normState' = [normState EXCEPT ![r] = "Completed"]
  /\ emitted' = [emitted EXCEPT ![r] = Append(@, Envelope(textBuffer[BufferOf(r)], <<>>, TRUE))]
  /\ vendorOpen' = [vendorOpen EXCEPT ![r] = FALSE]
  /\ UNCHANGED <<textBuffer, providerOf, classification, cancelled, uiError>>
  /\ UNCHANGED <<clientVars, classifyVars, citeVars, budgetVars, imageVars, waitVars, laterVars>>

\* StreamError: Failed, a terminal envelope whose error is the classified message.
OnStreamError(r, failure) ==
  /\ Consumes(normState[r]) /\ ~cancelled[r]
  /\ nchunks < MaxChunks
  /\ nchunks' = nchunks + 1
  /\ normState' = [normState EXCEPT ![r] = "Failed"]
  /\ classification' = [classification EXCEPT ![r] = classify(providerOf[r], failure)]
  /\ emitted' = [emitted EXCEPT ![r] =
                   Append(@, Envelope(textBuffer[BufferOf(r)],
                                      classify(providerOf[r], failure).userMessage, TRUE))]
  /\ vendorOpen' = [vendorOpen EXCEPT ![r] = FALSE]
  /\ UNCHANGED <<textBuffer, providerOf, cancelled, uiError>>
  /\ UNCHANGED <<clientVars, classifyVars, citeVars, budgetVars, imageVars, waitVars, laterVars>>

\* The caller cancels an in-flight turn: the vendor connection is closed and
\* nothing more is emitted.
Cancel(r) ==
  /\ normState[r] = "Streaming" /\ ~cancelled[r]
  /\ cancelled' = [cancelled EXCEPT ![r] = TRUE]
  /\ vendorOpen' = [vendorOpen EXCEPT ![r] = FALSE]
  /\ UNCHANGED <<normState, textBuffer, emitted, providerOf, classification, uiError, nchunks>>
  /\ UNCHANGED <<clientVars, classifyVars, citeVars, budgetVars, imageVars, waitVars, laterVars>>

\* The page got the terminal envelope of a failed turn and shows
\* parseErrorMessage of its error field.
UiReceives(r) ==
  /\ emitted[r] # <<>>
  /\ emitted[r][Len(emitted[r])].error # <<>>
  /\ uiError[r] = <<>>
  /\ uiError' = [uiError EXCEPT ![r] = parseErrorMessage(emitted[r][Len(emitted[r])].error)]
  /\ UNCHANGED <<normState, textBuffer, emitted, providerOf, classification, cancelled,
                 vendorOpen, nchunks>>
  /\ UNCHANGED <<clientVars, classifyVars, citeVars, budgetVars, imageVars, waitVars, laterVars>>

\* ------------------------------------------------------- classify, alone
ClassifyIdle ==
  /\ failureIn = NoFailure
  /\ providerIn = "none"
  /\ classOut = NoClassification

ClassifyInit ==
  /\ failureIn \in Failures
  /\ providerIn \in Providers
  /\ classOut = NoClassification

Classify ==
  /\ classOut = NoClassification
  /\ failureIn # NoFailure
  /\ classOut' = classify(providerIn, failureIn)
  /\ UNCHANGED <<failureIn, providerIn>>
  /\ UNCHANGED <<clientVars, gatewayVars, citeVars, budgetVars, imageVars, waitVars, laterVars>>

\* ========================================================== parseAnswer
\* Answer.tsx.  A doc number is the digit string of a `docN` reference; a link
\* is one bracketed citation link, the doc numbers in it in order; the answer
\* text is reduced to its links, in order.
MaxRefs == 3
MaxCitations == 2

DocNumbers == {<<1>>, <<2>>, <<0, 1>>}

\* Number(docNumber): the digit string read as a decimal number.
RECURSIVE Number(_)
Number(ds) ==
  IF ds = <<>> THEN 0 ELSE Number(SubSeq(ds, 1, Len(ds) - 1)) * 10 + ds[Len(ds)]

\* A piece of answerText: a link still in the text, or, once replaced, the
\* display indices written in its place.
Link(l) == [done |-> FALSE, link |-> l, refs |-> <<>>]

NotParsed == [done |-> FALSE, answerText |-> <<>>, citations |-> <<>>]

\* docMatches.forEach: acc holds filteredCitations, citationReindex and replacementText.
RECURSIVE forEachDoc(_, _, _, _)
forEachDoc(acc, link, i, ncit) ==
  IF i > Len(link) THEN acc
  ELSE LET docNumber == link[i]
           citationArrayIndex == Number(docNumber) - 1
           found == \E j \in 1..Len(acc.filtered) : acc.filtered[j].id = docNumber
       IN IF citationArrayIndex >= 0 /\ citationArrayIndex < ncit
          THEN IF ~found
               THEN forEachDoc(
                      [filtered |-> Append(acc.filtered,
                                           [id |-> docNumber,
                                            reindex_id |-> acc.reindex + 1,
                                            source |-> citationArrayIndex + 1]),
                       reindex |-> acc.reindex + 1,
                       repl |-> Append(acc.repl, acc.reindex + 1)],
                      link, i + 1, ncit)
               ELSE LET existing ==
                          acc.filtered[CHOOSE j \in 1..Len(acc.filtered) :
                                         /\ acc.filtered[j].id = docNumber
                                         /\ \A h \in 1..(j - 1) : acc.filtered[h].id # docNumber]
                    IN forEachDoc([acc EXCEPT !.repl = Append(@, existing.reindex_id)],
                                  link, i + 1, ncit)
          ELSE forEachDoc(acc, link, i + 1, ncit)

\* answerText.replaceAll(link, replacementText)
replaceAll(text, link, repl) ==
  [k \in 1..Len(text) |->
     IF ~text[k].done /\ text[k].link = link
     THEN [done |-> TRUE, link |-> link, refs |-> repl]
     ELSE text[k]]

\* citationLinks.forEach
RECURSIVE forEachLink(_, _, _, _)
forEachLink(acc, links, i, ncit) ==
  IF i > Len(links) THEN acc
  ELSE LET docs == forEachDoc([filtered |-> acc.filtered, reindex |-> acc.reindex,
                               repl |-> <<>>], links[i], 1, ncit)
       IN forEachLink([filtered |-> docs.filtered, reindex |-> docs.reindex,
                       text |-> replaceAll(acc.text, links[i], docs.repl)],
                      links, i + 1, ncit)

parseAnswer(ans, ncit) ==
  LET out == forEachLink([filtered |-> <<>>, reindex |-> 0,
                          text |-> [k \in 1..Len(ans) |-> Link(ans[k])]], ans, 1, ncit)
  IN [done |-> TRUE, answerText |-> out.text, citations |-> out.filtered]

\* The doc references in the answer, all links together.
RECURSIVE Flatten(_)
Flatten(links) == IF links = <<>> THEN <<>> ELSE Head(links) \o Flatten(Tail(links))

CiteInit ==
  /\ answer = <<>>
  /\ citations = 0
  /\ parsed = NotParsed

\* The answer arrives with one more citation in its list.
AddCitation ==
  /\ answer = <<>>
  /\ citations < MaxCitations
  /\ citations' = citations + 1
  /\ UNCHANGED <<answer, parsed>>
  /\ UNCHANGED <<clientVars, gatewayVars, classifyVars, budgetVars, imageVars, waitVars, laterVars>>

\* The answer text grows by a link with one doc reference.
WriteLink(d) ==
  /\ Len(Flatten(answer)) < MaxRefs
  /\ answer' = Append(answer, <<d>>)
  /\ parsed' = NotParsed
  /\ UNCHANGED citations
  /\ UNCHANGED <<clientVars, gatewayVars, classifyVars, budgetVars, imageVars, waitVars, laterVars>>

\* The last link of the answer text grows by a doc reference.
WriteDoc(d) ==
  /\ answer # <<>>
  /\ Len(Flatten(answer)) < MaxRefs
  /\ answer' = [answer EXCEPT ![Len(answer)] = Append(@, d)]
  /\ parsed' = NotParsed
  /\ UNCHANGED citations
  /\ UNCHANGED <<clientVars, gatewayVars, classifyVars, budgetVars, imageVars, waitVars, laterVars>>

\* The Answer component renders: parseAnswer(answer).
Render ==
  /\ ~parsed.done
  /\ parsed' = parseAnswer(answer, citations)
  /\ UNCHANGED <<answer, citations>>
  /\ UNCHANGED <<clientVars, gatewayVars, classifyVars, budgetVars, imageVars, waitVars, laterVars>>

\* ================================================== token budget selector
\* CHANGELOG_LLM_TOKENS.md: the selector of backend/llm_providers/base.py and
\* the per-provider settings it reads; the start of the process is described
\* by the specification (section 4.3).
MaxCalls == 2

Tiers == {"veryShort", "normal", "comprehensive"}
\* response sizes a request may carry: the tiers, and "medium"
ResponseSizes == Tiers \cup {"medium"}
TokenValues == {1000, 6000}
\* an environment variable that is not set
Missing == 0

\* The provider settings, read from the environment variables.
Settings(e) ==
  [p \in Providers |->
     [response_very_short_max_tokens |-> e[p, "veryShort"],
      response_normal_max_tokens |-> e[p, "normal"],
      response_comprehensive_max_tokens |-> e[p, "comprehensive"]]]

\* A selector that knows one ceiling per provider.
selectNormalOnly(app_settings, provider_name, response_size) ==
  app_settings[provider_name].response_normal_max_tokens

\* _get_max_tokens_for_response_size
select(app_settings, provider_name, response_size) ==
  LET provider_settings == app_settings[provider_name]
  IN IF response_size = "veryShort" THEN provider_settings.response_very_short_max_tokens
     ELSE IF response_size = "comprehensive"
     THEN provider_settings.response_comprehensive_max_tokens
     ELSE provider_settings.response_normal_max_tokens

\* A start that does not look at the settings.
startsAnyway(app_settings) == TRUE

\* Every provider has its three token settings.
settingsComplete(app_settings) ==
  \A p \in Providers :
    /\ app_settings[p].response_very_short_max_tokens # Missing
    /\ app_settings[p].response_normal_max_tokens # Missing
    /\ app_settings[p].response_comprehensive_max_tokens # Missing

BudgetIdle ==
  /\ env = [x \in Providers \X Tiers |-> Missing]
  /\ proc = "off"
  /\ returned = <<>>
  /\ requestFailed = FALSE
  /\ ncalls = 0

BudgetInit ==
  /\ env \in [Providers \X Tiers -> TokenValues \cup {Missing}]
  /\ proc = "boot"
  /\ returned = <<>>
  /\ requestFailed = FALSE
  /\ ncalls = 0

\* The process starts: it fails if a token setting is missing.
Start ==
  /\ proc = "boot"
  /\ proc' = IF settingsComplete(Settings(env)) THEN "running" ELSE "failed"
  /\ UNCHANGED <<env, returned, requestFailed, ncalls>>
  /\ UNCHANGED <<clientVars, gatewayVars, classifyVars, citeVars, imageVars, waitVars, laterVars>>

\* A request is accepted and its token ceiling selected.
SelectBudget(p, size) ==
  /\ proc = "running"
  /\ ncalls < MaxCalls
  /\ ncalls' = ncalls + 1
  /\ LET v == select(Settings(env), p, size)
     IN /\ returned' = Append(returned, [provider |-> p, tier |-> size, maxOutputTokens |-> v])
        /\ requestFailed' = (requestFailed \/ v = Missing)
  /\ UNCHANGED <<env, proc>>
  /\ UNCHANGED <<clientVars, gatewayVars, classifyVars, citeVars, imageVars, waitVars, laterVars>>

\* ===================================================== images of a question
\* QuestionInput.tsx: attaching an image and sending the question; the adapter
\* that receives the request is described by the specification (section 4.1).
MaxSends == 2

LlmProviders == {"AZURE_OPENAI", "CLAUDE", "GEMINI", "MISTRAL"}

\* ['CLAUDE', 'GEMINI', 'OPENAI_DIRECT'].includes(currentProvider)
supportsImages(currentProvider) == currentProvider \in {"CLAUDE", "GEMINI", "OPENAI_DIRECT"}

NoRequest == [provider |-> "none", image |-> FALSE]
NoReply == [state |-> "none", kind |-> "none", image |-> FALSE]

\* An adapter that leaves out what the vendor does not take and serves the rest.
sendRequestDropping(provider, image) ==
  [state |-> "served", kind |-> "none", image |-> image /\ supportsImages(provider)]

\* sendRequest of the adapter, inside the failure boundary of the entry point:
\* an image part for a vendor without image input is a capability error,
\* classified as an HTTP 400; otherwise the request is served as it is.
sendRequest(provider, image) ==
  IF image /\ ~supportsImages(provider)
  THEN [state |-> "failed",
        kind |-> classify(provider, [transport |-> FALSE, status |-> 400, quota |-> FALSE,
                                     policy |-> FALSE, raw |-> <<"vendor wording">>]).kind,
        image |-> FALSE]
  ELSE [state |-> "served", kind |-> "none", image |-> image]

ImageIdle ==
  /\ llmProvider = "AZURE_OPENAI"
  /\ base64Image = FALSE
  /\ historyHasImage = FALSE
  /\ sent = NoRequest
  /\ reply = NoReply
  /\ nsends = 0

\* The user picks a provider in the customization panel; the effect of
\* QuestionInput clears the attached image if the provider takes none.
ChangeProvider(p) ==
  /\ p # llmProvider
  /\ llmProvider' = p
  /\ base64Image' = (base64Image /\ supportsImages(p))
  /\ UNCHANGED <<historyHasImage, sent, reply, nsends>>
  /\ UNCHANGED <<clientVars, gatewayVars, classifyVars, citeVars, budgetVars, waitVars, laterVars>>

\* handleFileUpload, handleDrop, onPaste: an image is attached if the provider
\* takes images.
AttachImage ==
  /\ supportsImages(llmProvider)
  /\ ~base64Image
  /\ base64Image' = TRUE
  /\ UNCHANGED <<llmProvider, historyHasImage, sent, reply, nsends>>
  /\ UNCHANGED <<clientVars, gatewayVars, classifyVars, citeVars, budgetVars, waitVars, laterVars>>

\* sendQuestion: the question, with its image part if an image is attached,
\* joins the conversation, and the request carries the whole conversation.
SendQuestion ==
  /\ sent = NoRequest
  /\ nsends < MaxSends
  /\ nsends' = nsends + 1
  /\ historyHasImage' = (historyHasImage \/ base64Image)
  /\ sent' = [provider |-> llmProvider, image |-> historyHasImage \/ base64Image]
  /\ base64Image' = FALSE
  /\ reply' = NoReply
  /\ UNCHANGED llmProvider
  /\ UNCHANGED <<clientVars, gatewayVars, classifyVars, citeVars, budgetVars, waitVars, laterVars>>

\* The adapter handles the request.
AdapterCall ==
  /\ sent # NoRequest
  /\ reply' = sendRequest(sent.provider, sent.image)
  /\ sent' = NoRequest
  /\ UNCHANGED <<llmProvider, base64Image, historyHasImage, nsends>>
  /\ UNCHANGED <<clientVars, gatewayVars, classifyVars, citeVars, budgetVars, waitVars, laterVars>>

\* ================================================ the wait for the vendor
\* The adapter call and its timeouts are described by the specification only
\* (section 5): a bounded wait for the first byte and for each later chunk.
FirstByteWait == 2
ChunkWait == 2
MaxVendorChunks == 2

\* The bounded wait of a call in a phase.
WaitOf(phase) == IF phase = "waitFirst" THEN FirstByteWait ELSE ChunkWait

Waiting(r) == callPhase[r] \in {"waitFirst", "streaming"}

\* An adapter call that waits for the vendor without a limit.
waitsForever(phase, ticks) == FALSE

\* The wait of a call is exceeded.
waitExceeded(phase, ticks) == ticks >= WaitOf(phase)

\* A timeout is a transport-level failure: there is no HTTP status.
TimeoutFailure ==
  [transport |-> TRUE, status |-> 0, quota |-> FALSE, policy |-> FALSE, raw |-> <<>>]

WaitIdle ==
  /\ callPhase = [r \in Requests |-> "off"]
  /\ silence = [r \in Requests |-> 0]
  /\ chunksGot = [r \in Requests |-> 0]
  /\ failKind = [r \in Requests |-> "none"]

\* The adapter calls the vendor.
CallVendor(r) ==
  /\ callPhase[r] = "off"
  /\ callPhase' = [callPhase EXCEPT ![r] = "waitFirst"]
  /\ UNCHANGED <<silence, chunksGot, failKind>>
  /\ UNCHANGED <<clientVars, gatewayVars, classifyVars, citeVars, budgetVars, imageVars, laterVars>>

\* Time passes for every call that waits; it does not pass a wait that is
\* exceeded before the call has failed.
Tick ==
  /\ \E r \in Requests : Waiting(r)
  /\ \A r \in Requests : Waiting(r) => silence[r] < WaitOf(callPhase[r])
  /\ silence' = [r \in Requests |-> IF Waiting(r) THEN silence[r] + 1 ELSE silence[r]]
  /\ UNCHANGED <<callPhase, chunksGot, failKind>>
  /\ UNCHANGED <<clientVars, gatewayVars, classifyVars, citeVars, budgetVars, imageVars, laterVars>>

\* The vendor sends the first byte or a later chunk, in time.
VendorChunk(r) ==
  /\ Waiting(r)
  /\ silence[r] < WaitOf(callPhase[r])
  /\ chunksGot[r] < MaxVendorChunks
  /\ callPhase' = [callPhase EXCEPT ![r] = "streaming"]
  /\ silence' = [silence EXCEPT ![r] = 0]
  /\ chunksGot' = [chunksGot EXCEPT ![r] = @ + 1]
  /\ UNCHANGED failKind
  /\ UNCHANGED <<clientVars, gatewayVars, classifyVars, citeVars, budgetVars, imageVars, laterVars>>

\* The vendor closes the connection: the stream has ended.
VendorClose(r) ==
  /\ callPhase[r] = "streaming"
  /\ silence[r] < WaitOf(callPhase[r])
  /\ callPhase' = [callPhase EXCEPT ![r] = "ended"]
  /\ UNCHANGED <<silence, chunksGot, failKind>>
  /\ UNCHANGED <<clientVars, gatewayVars, classifyVars, citeVars, budgetVars, imageVars, laterVars>>

\* The wait is exceeded: the call fails and the failure is classified.
WaitExceeded(r) ==
  /\ Waiting(r)
  /\ waitExceeded(callPhase[r], silence[r])
  /\ callPhase' = [callPhase EXCEPT ![r] = "failed"]
  /\ failKind' = [failKind EXCEPT ![r] = classifyKind(TimeoutFailure)]
  /\ UNCHANGED <<silence, chunksGot>>
  /\ UNCHANGED <<clientVars, gatewayVars, classifyVars, citeVars, budgetVars, imageVars, laterVars>>

\* ======================================================= adapter registry
\* The registry is described by the specification only (section 4.2).
MaxResolves == 2

\* AVAILABLE_LLM_PROVIDERS: the vendors that have an adapter.
KnownAdapters == {"AZURE_OPENAI", "CLAUDE", "OPENAI_DIRECT", "MISTRAL", "GEMINI"}
\* The identifiers a request may carry; NOUVEAU has no adapter.
ProviderIds == KnownAdapters \cup {"NOUVEAU"}

NoResolution == [providerId |-> "none", adapter |-> "none", error |-> "none"]

\* A lookup that falls back to the Azure adapter.
resolveDefault(reg, providerId) ==
  [providerId |-> providerId,
   adapter |-> IF providerId \in reg THEN providerId ELSE "AZURE_OPENAI",
   error |-> "none"]

\* resolve(providerId) -> ProviderAdapter
resolve(reg, providerId) ==
  IF providerId \in reg
    THEN [providerId |-> providerId, adapter |-> providerId, error |-> "none"]
    ELSE [providerId |-> providerId, adapter |-> "none",
          error |-> "UnsupportedProviderError"]

RegistryIdle ==
  /\ registry = {}
  /\ regPhase = "off"
  /\ resolved = NoResolution
  /\ nresolves = 0

RegistryInit ==
  /\ registry = {}
  /\ regPhase = "boot"
  /\ resolved = NoResolution
  /\ nresolves = 0

\* One registry entry is added while the process starts.
Register(p) ==
  /\ regPhase = "boot"
  /\ p \notin registry
  /\ registry' = registry \cup {p}
  /\ UNCHANGED <<regPhase, resolved, nresolves>>
  /\ UNCHANGED <<coreVars, appVars, voiceVars, audioVars>>

\* The process has started: registration is over.
Serve ==
  /\ regPhase = "boot"
  /\ regPhase' = "serving"
  /\ UNCHANGED <<registry, resolved, nresolves>>
  /\ UNCHANGED <<coreVars, appVars, voiceVars, audioVars>>

\* The entry point resolves the adapter of a request.
Resolve(providerId) ==
  /\ regPhase = "serving"
  /\ nresolves < MaxResolves
  /\ resolved' = resolve(registry, providerId)
  /\ nresolves' = nresolves + 1
  /\ UNCHANGED <<registry, regPhase>>
  /\ UNCHANGED <<coreVars, appVars, voiceVars, audioVars>>

\* ================================================= application state
MaxCloseTimers == 2

\* available_llm_providers, as the backend may announce it.
AnnouncedLists == {<<"AZURE_OPENAI", "CLAUDE">>, <<"CLAUDE">>}
\* What an earlier session may have left in localStorage: no item, an item
\* without llmProvider, or an item with the provider chosen then.
StoredValues == {"none", "undefined", "AZURE_OPENAI", "CLAUDE", "MISTRAL"}

NoSettings == [loaded |-> FALSE, available_llm_providers |-> <<>>]

\* const initialState: AppState
initialState ==
  [isChatHistoryOpen |-> FALSE,
   isHelpPanelOpen |-> FALSE,
   isCustomizationPanelOpen |-> FALSE,
   frontendSettings |-> NoSettings,
   customizationPreferences |-> [llmProvider |-> "AZURE_OPENAI"]]

Action(type, payload) == [type |-> type, payload |-> payload]

\* A reducer whose toggles leave the other panels as they are.
toggleOnly(state, action) ==
  CASE action.type = "TOGGLE_CHAT_HISTORY" ->
         [state EXCEPT !.isChatHistoryOpen = ~state.isChatHistoryOpen]
    [] action.type = "TOGGLE_HELP_PANEL" ->
         [state EXCEPT !.isHelpPanelOpen = ~state.isHelpPanelOpen]
    [] action.type = "TOGGLE_CUSTOMIZATION_PANEL" ->
         [state EXCEPT !.isCustomizationPanelOpen = ~state.isCustomizationPanelOpen]
    [] action.type = "UPDATE_CUSTOMIZATION_PREFERENCES" ->
         [state EXCEPT !.customizationPreferences = action.payload]
    [] action.type = "FETCH_FRONTEND_SETTINGS" ->
         [state EXCEPT !.frontendSettings = action.payload]
    [] OTHER -> state

\* appStateReducer(state, action)
appStateReducer(state, action) ==
  CASE action.type = "TOGGLE_CHAT_HISTORY" ->
         [state EXCEPT
            !.isChatHistoryOpen = ~state.isChatHistoryOpen,
            !.isHelpPanelOpen = IF ~state.isChatHistoryOpen THEN FALSE ELSE @,
            !.isCustomizationPanelOpen = IF ~state.isChatHistoryOpen THEN FALSE ELSE @]
    [] action.type = "TOGGLE_HELP_PANEL" ->
         [state EXCEPT
            !.isHelpPanelOpen = ~state.isHelpPanelOpen,
            !.isChatHistoryOpen = IF ~state.isHelpPanelOpen THEN FALSE ELSE @,
            !.isCustomizationPanelOpen = IF ~state.isHelpPanelOpen THEN FALSE ELSE @]
    [] action.type = "TOGGLE_CUSTOMIZATION_PANEL" ->
         [state EXCEPT
            !.isCustomizationPanelOpen = ~state.isCustomizationPanelOpen,
            !.isChatHistoryOpen = IF ~state.isCustomizationPanelOpen THEN FALSE ELSE @,
            !.isHelpPanelOpen = IF ~state.isCustomizationPanelOpen THEN FALSE ELSE @]
    [] action.type = "UPDATE_CUSTOMIZATION_PREFERENCES" ->
         [state EXCEPT !.customizationPreferences = action.payload]
    [] action.type = "FETCH_FRONTEND_SETTINGS" ->
         [state EXCEPT !.frontendSettings = action.payload]
    [] OTHER -> state

PanelToggles == {"TOGGLE_CHAT_HISTORY", "TOGGLE_HELP_PANEL", "TOGGLE_CUSTOMIZATION_PANEL"}

\* The null that loadPreferencesFromStorage returns when there is no item.
NoPreferences == [llmProvider |-> "null"]

\* loadPreferencesFromStorage()
loadPreferencesFromStorage(stored) ==
  IF stored = "none" THEN NoPreferences
  ELSE [llmProvider |-> IF stored = "undefined" THEN "AZURE_OPENAI" ELSE stored]

\* frontendSettings?.available_llm_providers || ['AZURE_OPENAI']
availableProviders(state) ==
  IF state.frontendSettings.loaded
    THEN state.frontendSettings.available_llm_providers
    ELSE <<"AZURE_OPENAI">>

\* getInitialPreferences().llmProvider
getInitialPreferences(state, stored) ==
  IF loadPreferencesFromStorage(stored) # NoPreferences
    THEN loadPreferencesFromStorage(stored).llmProvider
    ELSE state.customizationPreferences.llmProvider

AppIdle ==
  /\ appState = initialState
  /\ localStorage = "none"
  /\ started = FALSE
  /\ isVisible = FALSE
  /\ panelLlmProvider = "none"
  /\ closeTimers = 0
  /\ closeAsked = FALSE
  /\ requestProvider = "none"

AppInit ==
  /\ appState = initialState
  /\ localStorage \in StoredValues
  /\ started = FALSE
  /\ isVisible = FALSE
  /\ panelLlmProvider = "none"
  /\ closeTimers = 0
  /\ closeAsked = FALSE
  /\ requestProvider = "none"

\* The state after a dispatch gave s2 and the page rendered: CustomizationPanel
\* is mounted while isCustomizationPanelOpen.  On mount its state is
\* initialised, its mount effect dispatches the saved preferences, and the
\* panel slides in; on unmount its state is gone.  store is localStorage then.
Rendered(s2, store) ==
  IF ~appState.isCustomizationPanelOpen /\ s2.isCustomizationPanelOpen
    THEN /\ panelLlmProvider' = getInitialPreferences(s2, store)
         /\ isVisible' = TRUE
         /\ appState' =
              IF loadPreferencesFromStorage(store) # NoPreferences
                THEN appStateReducer(s2, Action("UPDATE_CUSTOMIZATION_PREFERENCES",
                                                loadPreferencesFromStorage(store)))
                ELSE s2
    ELSE IF appState.isCustomizationPanelOpen /\ ~s2.isCustomizationPanelOpen
    THEN /\ panelLlmProvider' = "none"
         /\ isVisible' = FALSE
         /\ appState' = s2
    ELSE /\ appState' = s2
         /\ UNCHANGED <<panelLlmProvider, isVisible>>

\* AppStateProvider's mount effect: the saved preferences are dispatched.
LoadPreferences ==
  /\ ~started
  /\ started' = TRUE
  /\ appState' =
       IF loadPreferencesFromStorage(localStorage) # NoPreferences
         THEN appStateReducer(appState, Action("UPDATE_CUSTOMIZATION_PREFERENCES",
                                               loadPreferencesFromStorage(localStorage)))
         ELSE appState
  /\ UNCHANGED <<localStorage, isVisible, panelLlmProvider, closeTimers, closeAsked,
                 requestProvider>>
  /\ UNCHANGED <<coreVars, registryVars, voiceVars, audioVars>>

\* getFrontendSettings resolves with what the backend announces.
FetchFrontendSettings(list) ==
  /\ started
  /\ ~appState.frontendSettings.loaded
  /\ appState' = appStateReducer(appState,
                   Action("FETCH_FRONTEND_SETTINGS",
                          [loaded |-> TRUE, available_llm_providers |-> list]))
  /\ UNCHANGED <<localStorage, started, isVisible, panelLlmProvider, closeTimers,
                 closeAsked, requestProvider>>
  /\ UNCHANGED <<coreVars, registryVars, voiceVars, audioVars>>

\* The user toggles a panel with its button.
Toggle(type) ==
  /\ started
  /\ Rendered(appStateReducer(appState, Action(type, "none")), localStorage)
  /\ closeAsked' = IF type = "TOGGLE_CUSTOMIZATION_PANEL" THEN FALSE ELSE closeAsked
  /\ UNCHANGED <<localStorage, started, closeTimers, requestProvider>>
  /\ UNCHANGED <<coreVars, registryVars, voiceVars, audioVars>>

\* handleCloseCustomization: the close button, a click on the overlay or Escape.
handleCloseCustomization ==
  /\ appState.isCustomizationPanelOpen
  /\ closeTimers < MaxCloseTimers
  /\ isVisible' = FALSE
  /\ closeTimers' = closeTimers + 1
  /\ closeAsked' = TRUE
  /\ UNCHANGED <<appState, localStorage, started, panelLlmProvider, requestProvider>>
  /\ UNCHANGED <<coreVars, registryVars, voiceVars, audioVars>>

\* 300 ms after handleCloseCustomization its timeout dispatches the toggle.
CloseTimeout ==
  /\ closeTimers > 0
  /\ closeTimers' = closeTimers - 1
  /\ Rendered(appStateReducer(appState, Action("TOGGLE_CUSTOMIZATION_PANEL", "none")),
              localStorage)
  /\ UNCHANGED <<localStorage, started, closeAsked, requestProvider>>
  /\ UNCHANGED <<coreVars, registryVars, voiceVars, audioVars>>

\* updatePreferences(...) with llmProvider p: saved and dispatched.
updatePreferences(p) ==
  /\ localStorage' = p
  /\ appState' = appStateReducer(appState,
                   Action("UPDATE_CUSTOMIZATION_PREFERENCES", [llmProvider |-> p]))

\* handleLlmProviderChange: the choice group offers availableProviders, when
\* there is more than one.
handleLlmProviderChange(i) ==
  /\ appState.isCustomizationPanelOpen
  /\ Len(availableProviders(appState)) > 1
  /\ i \in 1..Len(availableProviders(appState))
  /\ panelLlmProvider' = availableProviders(appState)[i]
  /\ updatePreferences(availableProviders(appState)[i])
  /\ UNCHANGED <<started, isVisible, closeTimers, closeAsked, requestProvider>>
  /\ UNCHANGED <<coreVars, registryVars, voiceVars, audioVars>>

\* handleResponseSizeChange: updatePreferences(newValue, undefined, undefined)
\* saves and dispatches the panel's own llmProvider.
handleResponseSizeChange ==
  /\ appState.isCustomizationPanelOpen
  /\ updatePreferences(panelLlmProvider)
  /\ UNCHANGED <<started, isVisible, panelLlmProvider, closeTimers, closeAsked,
                 requestProvider>>
  /\ UNCHANGED <<coreVars, registryVars, voiceVars, audioVars>>

\* resetToDefaults
resetToDefaults ==
  /\ appState.isCustomizationPanelOpen
  /\ LET defaultProvider == availableProviders(appState)[1]
     IN /\ panelLlmProvider' = defaultProvider
        /\ localStorage' = "none"
        /\ appState' = appStateReducer(appState,
                         Action("UPDATE_CUSTOMIZATION_PREFERENCES",
                                [llmProvider |-> defaultProvider]))
  /\ UNCHANGED <<started, isVisible, closeTimers, closeAsked, requestProvider>>
  /\ UNCHANGED <<coreVars, registryVars, voiceVars, audioVars>>

\* conversationApi / historyGenerate: provider: customizationPreferences?.llmProvider.
\* The page sends once the frontend settings are there.
SendRequest ==
  /\ started
  /\ appState.frontendSettings.loaded
  /\ requestProvider' = appState.customizationPreferences.llmProvider
  /\ UNCHANGED <<appState, localStorage, started, isVisible, panelLlmProvider,
                 closeTimers, closeAsked>>
  /\ UNCHANGED <<coreVars, registryVars, voiceVars, audioVars>>

\* ------------------------------------------------------------ the voice hook
\* The configuration QuestionInput hands to the hook; the model holds it fixed,
\* so the effect that creates the two recognizers runs once, at mount.
voiceInputEnabled == TRUE
canUseWakeWord == TRUE
speechSupported == TRUE

\* What the handlers created by the mount effect closed over: the state of the
\* first render.
closure ==
  [isListening |-> FALSE, isWakeWordListening |-> FALSE,
   wakeWordMode |-> FALSE, speechSupported |-> FALSE]

\* A SpeechRecognition object: start() is answered by onstart, stop() and an
\* error by onend; start() on an object that has not ended yet throws.
RecognizerStates == {"idle", "starting", "running", "stopping"}
throws(r) == r # "idle"
start(r) == IF throws(r) THEN r ELSE "starting"
stop(r) == IF r \in {"starting", "running"} THEN "stopping" ELSE r

TimerKinds == {"click", "toggle", "detected", "onerror", "onend"}
Timer(kind, l, w) == [kind |-> kind, isListening |-> l, isWakeWordListening |-> w]
WakeWordErrors == {"no-speech", "aborted", "network", "not-allowed", "audio-capture"}

VoiceIdle ==
  /\ isListening = FALSE
  /\ isWakeWordListening = FALSE
  /\ wakeWordMode = FALSE
  /\ recognition = "idle"
  /\ wakeWordRecognition = "idle"
  /\ timers = {}
  /\ lastClickTimeRef = "zero"
  /\ clicked = FALSE

VoiceInit == VoiceIdle

restVoice == <<coreVars, registryVars, appVars, audioVars>>

\* recognition.onstart
RecognitionStart ==
  /\ recognition = "starting"
  /\ recognition' = "running"
  /\ isListening' = TRUE
  /\ UNCHANGED <<isWakeWordListening, wakeWordMode, wakeWordRecognition, timers>>
  /\ UNCHANGED <<lastClickTimeRef, clicked>>
  /\ UNCHANGED restVoice

\* recognition.onerror; the recognizer ends after an error.
RecognitionError ==
  /\ recognition \in {"starting", "running"}
  /\ recognition' = "stopping"
  /\ isListening' = FALSE
  /\ UNCHANGED <<isWakeWordListening, wakeWordMode, wakeWordRecognition, timers>>
  /\ UNCHANGED <<lastClickTimeRef, clicked>>
  /\ UNCHANGED restVoice

\* recognition.onend: after stop(), after an error, or when the utterance is over
\* (continuous is false).
RecognitionEnd ==
  /\ recognition \in {"running", "stopping"}
  /\ recognition' = "idle"
  /\ isListening' = FALSE
  /\ UNCHANGED <<isWakeWordListening, wakeWordMode, wakeWordRecognition, timers>>
  /\ UNCHANGED <<lastClickTimeRef, clicked>>
  /\ UNCHANGED restVoice

\* wakeWordRecognition.onstart
WakeWordStart ==
  /\ wakeWordRecognition = "starting"
  /\ wakeWordRecognition' = "running"
  /\ isWakeWordListening' = TRUE
  /\ UNCHANGED <<isListening, wakeWordMode, recognition, timers>>
  /\ UNCHANGED <<lastClickTimeRef, clicked>>
  /\ UNCHANGED restVoice

\* wakeWordRecognition.onresult with a final result that holds a wake phrase,
\* followed by a question or not.
WakeWordDetected(questionPart) ==
  /\ wakeWordRecognition = "running"
  /\ wakeWordRecognition' = stop(wakeWordRecognition)
  /\ isWakeWordListening' = FALSE
  /\ timers' = IF questionPart
                 THEN timers
                 ELSE timers \cup {Timer("detected", closure.isListening,
                                         closure.isWakeWordListening)}
  /\ UNCHANGED <<isListening, wakeWordMode, recognition>>
  /\ UNCHANGED <<lastClickTimeRef, clicked>>
  /\ UNCHANGED restVoice

\* wakeWordRecognition.onerror
WakeWordError(error) ==
  /\ wakeWordRecognition \in {"starting", "running"}
  /\ wakeWordRecognition' = "stopping"
  /\ isWakeWordListening' = FALSE
  /\ timers' = IF /\ error \notin {"not-allowed", "audio-capture"}
                  /\ canUseWakeWord /\ voiceInputEnabled
                 THEN timers \cup {Timer("onerror", closure.isListening,
                                         closure.isWakeWordListening)}
                 ELSE timers
  /\ UNCHANGED <<isListening, wakeWordMode, recognition>>
  /\ UNCHANGED <<lastClickTimeRef, clicked>>
  /\ UNCHANGED restVoice

\* wakeWordRecognition.onend
WakeWordEnd ==
  /\ wakeWordRecognition \in {"running", "stopping"}
  /\ wakeWordRecognition' = "idle"
  /\ isWakeWordListening' = FALSE
  /\ timers' = IF /\ closure.wakeWordMode /\ canUseWakeWord /\ voiceInputEnabled
                  /\ ~closure.isListening
                 THEN timers \cup {Timer("onend", closure.isListening,
                                         closure.isWakeWordListening)}
                 ELSE timers
  /\ UNCHANGED <<isListening, wakeWordMode, recognition>>
  /\ UNCHANGED <<lastClickTimeRef, clicked>>
  /\ UNCHANGED restVoice

\* The guard of a restart timer, on the values its callback closed over.
restartAllowed(tm) ==
  IF tm.kind = "onerror"
    THEN /\ canUseWakeWord /\ voiceInputEnabled
         /\ ~tm.isWakeWordListening /\ ~tm.isListening
    ELSE /\ closure.speechSupported /\ closure.wakeWordMode
         /\ ~tm.isWakeWordListening /\ ~tm.isListening

\* The restart timer of onerror (500 to 5000 ms) or of onend (1000 ms) fires.
RestartTimeout(tm) ==
  /\ tm \in timers
  /\ tm.kind \in {"onerror", "onend"}
  /\ timers' = timers \ {tm}
  /\ IF restartAllowed(tm)
       THEN /\ isWakeWordListening' = ~throws(wakeWordRecognition)
            /\ wakeWordRecognition' = start(wakeWordRecognition)
       ELSE UNCHANGED <<isWakeWordListening, wakeWordRecognition>>
  /\ UNCHANGED <<isListening, wakeWordMode, recognition>>
  /\ UNCHANGED <<lastClickTimeRef, clicked>>
  /\ UNCHANGED restVoice

\* The timer set when a wake phrase came without a question fires (500 ms).
DetectedTimeout(tm) ==
  /\ tm \in timers
  /\ tm.kind = "detected"
  /\ timers' = timers \ {tm}
  /\ IF ~tm.isListening
       THEN /\ isListening' = ~throws(recognition)
            /\ recognition' = start(recognition)
       ELSE UNCHANGED <<isListening, recognition>>
  /\ UNCHANGED <<isWakeWordListening, wakeWordMode, wakeWordRecognition>>
  /\ UNCHANGED <<lastClickTimeRef, clicked>>
  /\ UNCHANGED restVoice

startListening ==
  /\ ~isListening /\ ~isWakeWordListening
  /\ isListening' = ~throws(recognition)
  /\ recognition' = start(recognition)
  /\ UNCHANGED <<isWakeWordListening, wakeWordMode, wakeWordRecognition, timers>>
  /\ UNCHANGED <<lastClickTimeRef, clicked>>
  /\ UNCHANGED restVoice

stopListening ==
  /\ isListening
  /\ recognition' = stop(recognition)
  /\ isListening' = FALSE
  /\ UNCHANGED <<isWakeWordListening, wakeWordMode, wakeWordRecognition, timers>>
  /\ UNCHANGED <<lastClickTimeRef, clicked>>
  /\ UNCHANGED restVoice

\* singleClickTimeoutRef.current: the pending timeout of a single click.
singleClickTimeout == {tm \in timers : tm.kind = "click"}

\* clearTimeout(singleClickTimeoutRef.current)
keepTimeout(tms) == tms
clearTimeout(tms) == tms \ {tm \in tms : tm.kind = "click"}

\* timeSinceLastClick < 300 && timeSinceLastClick > 0
isDoubleClick == lastClickTimeRef = "recent"

\* 300 ms go by without a click.
Later ==
  /\ clicked
  /\ clicked' = FALSE
  /\ lastClickTimeRef' = IF lastClickTimeRef = "recent" THEN "old" ELSE lastClickTimeRef
  /\ UNCHANGED <<isListening, isWakeWordListening, wakeWordMode, recognition,
                 wakeWordRecognition, timers>>
  /\ UNCHANGED restVoice

\* toggleWakeWord, a click that is not taken for the second of a double click:
\* the action of the single click is put off by 300 ms.
toggleWakeWord ==
  /\ voiceInputEnabled /\ speechSupported
  /\ ~isDoubleClick
  /\ timers' = clearTimeout(timers) \cup {Timer("click", isListening, isWakeWordListening)}
  /\ lastClickTimeRef' = "recent"
  /\ clicked' = TRUE
  /\ UNCHANGED <<isListening, isWakeWordListening, wakeWordMode, recognition,
                 wakeWordRecognition>>
  /\ UNCHANGED restVoice

\* toggleWakeWord, the second click of a double click: the wake-word mode flips.
toggleWakeWordDouble ==
  /\ voiceInputEnabled /\ speechSupported
  /\ isDoubleClick
  /\ wakeWordMode' = ~wakeWordMode
  /\ lastClickTimeRef' = "zero"
  /\ clicked' = TRUE
  /\ IF ~wakeWordMode
       THEN /\ timers' = IF speechSupported /\ canUseWakeWord
                           THEN clearTimeout(timers)
                                  \cup {Timer("toggle", isListening, isWakeWordListening)}
                           ELSE clearTimeout(timers)
            /\ UNCHANGED <<isWakeWordListening, wakeWordRecognition>>
       ELSE /\ timers' = clearTimeout(timers)
            /\ IF isWakeWordListening
                 THEN /\ wakeWordRecognition' = stop(wakeWordRecognition)
                      /\ isWakeWordListening' = FALSE
                 ELSE UNCHANGED <<isWakeWordListening, wakeWordRecognition>>
  /\ UNCHANGED <<isListening, recognition>>
  /\ UNCHANGED restVoice

\* The timer of a double click that switched the mode on fires (100 ms).
ToggleTimeout(tm) ==
  /\ tm \in timers
  /\ tm.kind = "toggle"
  /\ timers' = timers \ {tm}
  /\ UNCHANGED <<lastClickTimeRef, clicked>>
  /\ IF ~tm.isWakeWordListening /\ ~tm.isListening
       THEN /\ isWakeWordListening' = ~throws(wakeWordRecognition)
            /\ wakeWordRecognition' = start(wakeWordRecognition)
       ELSE UNCHANGED <<isWakeWordListening, wakeWordRecognition>>
  /\ UNCHANGED <<isListening, wakeWordMode, recognition>>
  /\ UNCHANGED restVoice

\* The timer of a single click fires: stop the dictation that was on when the
\* user clicked, or stop the wake word that was on and start a dictation.
SingleClickTimeout(tm) ==
  /\ tm \in timers
  /\ tm.kind = "click"
  /\ ~clicked
  /\ timers' = timers \ {tm}
  /\ UNCHANGED <<lastClickTimeRef, clicked>>
  /\ IF tm.isListening
       THEN /\ recognition' = stop(recognition)
            /\ isListening' = FALSE
            /\ UNCHANGED <<isWakeWordListening, wakeWordRecognition>>
       ELSE /\ IF tm.isWakeWordListening
                 THEN /\ wakeWordRecognition' = stop(wakeWordRecognition)
                      /\ isWakeWordListening' = FALSE
                 ELSE UNCHANGED <<isWakeWordListening, wakeWordRecognition>>
            /\ recognition' = start(recognition)
            /\ isListening' = IF throws(recognition) THEN FALSE ELSE isListening
  /\ UNCHANGED wakeWordMode
  /\ UNCHANGED restVoice

\* ------------------------------------------------- reading an answer aloud
\* One Answer component and the pause and resume functions the voice hook hands
\* to it.  A playback is started only when the callbacks of the previous one
\* have run; the timers of resumeVoiceRecognition may still be pending.

\* The hook's state as the functions of the current render close over it.
Closure(l, w, m) == [isListening |-> l, isWakeWordListening |-> w, wakeWordMode |-> m]
hookClosure == Closure(isListening, isWakeWordListening, wakeWordMode)
NoClosure == Closure(FALSE, FALSE, FALSE)

ResumeTimer(kind, c) ==
  [kind |-> kind, isListening |-> c.isListening,
   isWakeWordListening |-> c.isWakeWordListening, wakeWordMode |-> c.wakeWordMode]

\* resumeVoiceRecognition, called with the closure of the caller's render: the
\* whole body runs 800 ms later.
resumeVoiceRecognition(tms, c) == tms \cup {ResumeTimer("resume", c)}

\* At most MaxResumeTimers timeouts of resumeVoiceRecognition are pending.
MaxResumeTimers == 1
RoomForTimer == Cardinality(resumeTimers) < MaxResumeTimers

\* playAudioWithBrowser: the text is cleaned by the backend before it is spoken;
\* a call made while another one is under way is not told apart from it.
playAudioWithBrowser(b) == IF b = "none" THEN "clean" ELSE b

SynthesizeResults == {"single", "segments", "failure", "nodata"}

AudioIdle ==
  /\ azureSpeechEnabled = TRUE
  /\ isPlaying = FALSE
  /\ isManualStopRef = FALSE
  /\ azure = "none"
  /\ audio = "none"
  /\ pending = {}
  /\ browser = "none"
  /\ wasWakeWordActiveBeforePause = FALSE
  /\ resumeTimers = {}
  /\ playClosure = NoClosure
  /\ resumeOwed = FALSE

AudioInit ==
  /\ azureSpeechEnabled \in BOOLEAN
  /\ isPlaying = FALSE
  /\ isManualStopRef = FALSE
  /\ azure = "none"
  /\ audio = "none"
  /\ pending = {}
  /\ browser = "none"
  /\ wasWakeWordActiveBeforePause = FALSE
  /\ resumeTimers = {}
  /\ playClosure = NoClosure
  /\ resumeOwed = FALSE

\* Nothing of a playback is left: no audio, no speech, no callback, no timer.
AudioSettled ==
  /\ azure = "none" /\ audio = "none" /\ browser = "none"
  /\ pending = {} /\ resumeTimers = {}

\* The answer is being read aloud.
ReadingAloud == audio = "playing" \/ azure = "segments" \/ browser = "speaking"

restAudio == <<coreVars, registryVars, appVars>>
clickVars == <<timers, lastClickTimeRef, clicked>>

\* playAudio, from the button or from the auto-play effect, with
\* pauseVoiceRecognition inlined.
playAudio ==
  /\ ~isPlaying
  /\ azure = "none" /\ audio = "none" /\ browser = "none" /\ pending = {}
  /\ isManualStopRef' = FALSE
  /\ wasWakeWordActiveBeforePause' = isWakeWordListening
  /\ recognition' = IF isListening THEN stop(recognition) ELSE recognition
  /\ wakeWordRecognition' =
       IF isWakeWordListening THEN stop(wakeWordRecognition) ELSE wakeWordRecognition
  /\ playClosure' = hookClosure
  /\ resumeOwed' = IF AudioSettled THEN isWakeWordListening
                                   ELSE resumeOwed \/ isWakeWordListening
  /\ IF azureSpeechEnabled
       THEN azure' = "synthesize" /\ isPlaying' = TRUE /\ UNCHANGED browser
       ELSE browser' = playAudioWithBrowser(browser) /\ UNCHANGED <<azure, isPlaying>>
  /\ UNCHANGED <<azureSpeechEnabled, audio, pending, resumeTimers>>
  /\ UNCHANGED <<isListening, isWakeWordListening, wakeWordMode, clickVars>>
  /\ UNCHANGED restAudio

\* playAudioWithAzure after azureSpeechSynthesize has answered.
SynthesizeResult(res) ==
  /\ azure = "synthesize"
  /\ CASE res = "failure" ->
            /\ RoomForTimer
            /\ resumeTimers' = resumeVoiceRecognition(resumeTimers, playClosure)
            /\ browser' = playAudioWithBrowser(browser)
            /\ azure' = "none"
            /\ UNCHANGED audio
       [] res = "nodata" ->
            /\ browser' = playAudioWithBrowser(browser)
            /\ azure' = "none"
            /\ UNCHANGED <<audio, resumeTimers>>
       [] res = "segments" ->
            /\ azure' = "segments"
            /\ UNCHANGED <<audio, browser, resumeTimers>>
       [] res = "single" ->
            /\ azure' = "loading"
            /\ audio' = "loading"
            /\ UNCHANGED <<browser, resumeTimers>>
  /\ UNCHANGED <<azureSpeechEnabled, isPlaying, isManualStopRef, pending,
                 wasWakeWordActiveBeforePause, playClosure, resumeOwed>>
  /\ UNCHANGED voiceVars
  /\ UNCHANGED restAudio

\* audio.play() resolves: the audio plays.
PlayStarted ==
  /\ azure = "loading" /\ audio = "loading"
  /\ azure' = "none"
  /\ audio' = "playing"
  /\ UNCHANGED <<azureSpeechEnabled, isPlaying, isManualStopRef, pending, browser,
                 wasWakeWordActiveBeforePause, resumeTimers, playClosure, resumeOwed>>
  /\ UNCHANGED voiceVars
  /\ UNCHANGED restAudio

\* audio.onended
AudioEnded ==
  /\ audio = "playing"
  /\ RoomForTimer
  /\ audio' = "none"
  /\ isPlaying' = FALSE
  /\ isManualStopRef' = FALSE
  /\ resumeTimers' = resumeVoiceRecognition(resumeTimers, playClosure)
  /\ UNCHANGED <<azureSpeechEnabled, azure, pending, browser,
                 wasWakeWordActiveBeforePause, playClosure, resumeOwed>>
  /\ UNCHANGED voiceVars
  /\ UNCHANGED restAudio

\* The audio cannot be loaded or decoded: an error event is due, and the promise
\* of play() is rejected if it is still pending.
AudioFails ==
  /\ audio \in {"loading", "playing"}
  /\ audio' = "failed"
  /\ pending' = IF audio = "loading" THEN {"error", "reject"} ELSE {"error"}
  /\ UNCHANGED <<azureSpeechEnabled, isPlaying, isManualStopRef, azure, browser,
                 wasWakeWordActiveBeforePause, resumeTimers, playClosure, resumeOwed>>
  /\ UNCHANGED voiceVars
  /\ UNCHANGED restAudio

\* stopAudio, from toggleAudio while isPlaying: pause() and src = '' on the
\* audio raise an error event and reject a pending play().
stopAudio ==
  /\ isPlaying
  /\ RoomForTimer
  /\ isManualStopRef' = TRUE
  /\ browser' = IF browser = "speaking" THEN "cancelled" ELSE browser
  /\ IF audio \in {"loading", "playing"}
       THEN /\ audio' = "stopped"
            /\ pending' = IF audio = "loading" THEN {"error", "reject"} ELSE {"error"}
       ELSE UNCHANGED <<audio, pending>>
  /\ azure' = IF azure = "segments" THEN "aborted" ELSE azure
  /\ isPlaying' = FALSE
  /\ resumeTimers' = resumeVoiceRecognition(resumeTimers, hookClosure)
  /\ UNCHANGED <<azureSpeechEnabled, wasWakeWordActiveBeforePause, playClosure, resumeOwed>>
  /\ UNCHANGED voiceVars
  /\ UNCHANGED restAudio

\* audio.onerror
AudioErrorEvent ==
  /\ "error" \in pending
  /\ RoomForTimer
  /\ pending' = pending \ {"error"}
  /\ audio' = IF pending' = {} THEN "none" ELSE audio
  /\ isPlaying' = FALSE
  /\ resumeTimers' = resumeVoiceRecognition(resumeTimers, playClosure)
  /\ IF ~isManualStopRef
       THEN /\ browser' = playAudioWithBrowser(browser)
            /\ UNCHANGED isManualStopRef
       ELSE /\ isManualStopRef' = FALSE
            /\ UNCHANGED browser
  /\ UNCHANGED <<azureSpeechEnabled, azure, wasWakeWordActiveBeforePause,
                 playClosure, resumeOwed>>
  /\ UNCHANGED voiceVars
  /\ UNCHANGED restAudio

\* The catch of playAudioWithAzure, entered when audio.play() is rejected.
PlayRejected ==
  /\ "reject" \in pending
  /\ RoomForTimer
  /\ pending' = pending \ {"reject"}
  /\ audio' = IF pending' = {} THEN "none" ELSE audio
  /\ azure' = "none"
  /\ isPlaying' = FALSE
  /\ resumeTimers' = resumeVoiceRecognition(resumeTimers, playClosure)
  /\ browser' = playAudioWithBrowser(browser)
  /\ UNCHANGED <<azureSpeechEnabled, isManualStopRef, wasWakeWordActiveBeforePause,
                 playClosure, resumeOwed>>
  /\ UNCHANGED voiceVars
  /\ UNCHANGED restAudio

\* playAudioSegments is over: every segment played, one failed, or the playback
\* was aborted by stopAudio.
SegmentsDone ==
  /\ azure \in {"segments", "aborted"}
  /\ RoomForTimer
  /\ azure' = "none"
  /\ isPlaying' = FALSE
  /\ resumeTimers' = resumeVoiceRecognition(resumeTimers, playClosure)
  /\ UNCHANGED <<azureSpeechEnabled, isManualStopRef, audio, pending, browser,
                 wasWakeWordActiveBeforePause, playClosure, resumeOwed>>
  /\ UNCHANGED voiceVars
  /\ UNCHANGED restAudio

\* playAudioWithBrowser after the fetch of /speech/clean: the utterance is
\* spoken, or the fetch was rejected and the catch runs.
CleanDone(ok) ==
  /\ browser = "clean"
  /\ IF ok
       THEN /\ browser' = "speaking"
            /\ isPlaying' = TRUE
            /\ UNCHANGED resumeTimers
       ELSE /\ RoomForTimer
            /\ browser' = "none"
            /\ isPlaying' = FALSE
            /\ resumeTimers' = resumeVoiceRecognition(resumeTimers, playClosure)
  /\ UNCHANGED <<azureSpeechEnabled, isManualStopRef, azure, audio, pending,
                 wasWakeWordActiveBeforePause, playClosure, resumeOwed>>
  /\ UNCHANGED voiceVars
  /\ UNCHANGED restAudio

\* utterance.onend or utterance.onerror, after the speech or after cancel().
UtteranceEnd ==
  /\ browser \in {"speaking", "cancelled"}
  /\ RoomForTimer
  /\ browser' = "none"
  /\ isPlaying' = FALSE
  /\ resumeTimers' = resumeVoiceRecognition(resumeTimers, playClosure)
  /\ UNCHANGED <<azureSpeechEnabled, isManualStopRef, azure, audio, pending,
                 wasWakeWordActiveBeforePause, playClosure, resumeOwed>>
  /\ UNCHANGED voiceVars
  /\ UNCHANGED restAudio

\* The condition under which resumeVoiceRecognition restarts the wake word, on
\* the values its callback closed over.
shouldResume(tm) ==
  /\ wasWakeWordActiveBeforePause /\ tm.wakeWordMode
  /\ canUseWakeWord /\ voiceInputEnabled /\ ~tm.isListening

\* The 800 ms timer of resumeVoiceRecognition fires.
ResumeTimeout(tm) ==
  /\ tm \in resumeTimers
  /\ tm.kind = "resume"
  /\ resumeTimers' = (resumeTimers \ {tm})
                       \cup IF shouldResume(tm) THEN {ResumeTimer("fresh", NoClosure)} ELSE {}
  /\ IF shouldResume(tm) /\ tm.isWakeWordListening
       THEN /\ wakeWordRecognition' = stop(wakeWordRecognition)
            /\ isWakeWordListening' = FALSE
       ELSE UNCHANGED <<wakeWordRecognition, isWakeWordListening>>
  /\ wasWakeWordActiveBeforePause' = FALSE
  /\ UNCHANGED <<azureSpeechEnabled, isPlaying, isManualStopRef, azure, audio,
                 pending, browser, playClosure, resumeOwed>>
  /\ UNCHANGED <<isListening, wakeWordMode, recognition, clickVars>>
  /\ UNCHANGED restAudio

\* The 100 ms timer set by the resume fires: the wake word is started afresh.
FreshTimeout(tm) ==
  /\ tm \in resumeTimers
  /\ tm.kind = "fresh"
  /\ resumeTimers' = resumeTimers \ {tm}
  /\ isWakeWordListening' = ~throws(wakeWordRecognition)
  /\ wakeWordRecognition' = start(wakeWordRecognition)
  /\ UNCHANGED <<azureSpeechEnabled, isPlaying, isManualStopRef, azure, audio,
                 pending, browser, wasWakeWordActiveBeforePause, playClosure, resumeOwed>>
  /\ UNCHANGED <<isListening, wakeWordMode, recognition, clickVars>>
  /\ UNCHANGED restAudio

LaterIdle == RegistryIdle /\ AppIdle /\ VoiceIdle /\ AudioIdle

vars == <<clientVars, otherVars>>

Init == ClientInit /\ GatewayInit /\ ClassifyIdle /\ CiteInit /\ BudgetIdle /\ ImageIdle /\ WaitIdle /\ LaterIdle

Next ==
  \/ Send
  \/ \E t \in Turns : FetchOk(t)
  \/ \E t \in Turns, err \in JsonErrors : FetchNotOk(t, err)
  \/ \E t \in Turns : FetchReject(t)
  \/ \E t \in Turns, line \in Lines : ServerSend(t, line)
  \/ \E t \in Turns : \E k \in 1..Len(net[t]) : Read(t, k)
  \/ \E t \in Turns : ReadDone(t)
  \/ \E t \in Turns : ReadFail(t)
  \/ Stop
  \/ \E t \in Turns : AbortSeen(t)
  \/ RenderEffect

Spec == Init /\ [][Next]_vars

\* The gateway alone.
InitGateway == ClientInit /\ ~cosmosDB /\ GatewayInit /\ ClassifyIdle /\ CiteInit /\ BudgetIdle /\ ImageIdle /\ WaitIdle /\ LaterIdle

NextGateway ==
  \/ \E r \in Requests, p \in Providers : Begin(r, p)
  \/ \E r \in Requests, text \in DeltaChunks : OnTextDelta(r, text)
  \/ \E r \in Requests : OnStreamEnd(r)
  \/ \E r \in Requests, failure \in Failures : OnStreamError(r, failure)
  \/ \E r \in Requests : Cancel(r)
  \/ \E r \in Requests : UiReceives(r)

SpecGateway == InitGateway /\ [][NextGateway]_vars

\* classify alone, on every failure and provider.
InitClassify == ClientInit /\ ~cosmosDB /\ GatewayInit /\ ClassifyInit /\ CiteInit /\ BudgetIdle /\ ImageIdle /\ WaitIdle /\ LaterIdle

NextClassify == Classify

SpecClassify == InitClassify /\ [][NextClassify]_vars

\* The Answer component alone.
InitCite == ClientInit /\ ~cosmosDB /\ GatewayInit /\ ClassifyIdle /\ CiteInit /\ BudgetIdle /\ ImageIdle /\ WaitIdle /\ LaterIdle

NextCite ==
  \/ AddCitation
  \/ \E d \in DocNumbers : WriteLink(d)
  \/ \E d \in DocNumbers : WriteDoc(d)
  \/ Render

SpecCite == InitCite /\ [][NextCite]_vars

\* The token budget selector alone, on every configuration.
InitBudget ==
  ClientInit /\ ~cosmosDB /\ GatewayInit /\ ClassifyIdle /\ CiteInit /\ BudgetInit /\ ImageIdle /\ WaitIdle /\ LaterIdle

NextBudget ==
  \/ Start
  \/ \E p \in Providers, size \in ResponseSizes : SelectBudget(p, size)

SpecBudget == InitBudget /\ [][NextBudget]_vars

\* The image of a question alone.
InitImage == ClientInit /\ ~cosmosDB /\ GatewayInit /\ ClassifyIdle /\ CiteInit /\ BudgetIdle /\ ImageIdle /\ WaitIdle /\ LaterIdle

NextImage ==
  \/ \E p \in LlmProviders : ChangeProvider(p)
  \/ AttachImage
  \/ SendQuestion
  \/ AdapterCall

SpecImage == InitImage /\ [][NextImage]_vars

\* The adapter calls alone.  Time passes, and a timer that is due fires; the
\* vendor is obliged to nothing.
InitWait ==
  ClientInit /\ ~cosmosDB /\ GatewayInit /\ ClassifyIdle /\ CiteInit /\ BudgetIdle
    /\ ImageIdle /\ WaitIdle /\ LaterIdle

NextWait ==
  \/ \E r \in Requests : CallVendor(r)
  \/ Tick
  \/ \E r \in Requests : VendorChunk(r)
  \/ \E r \in Requests : VendorClose(r)
  \/ \E r \in Requests : WaitExceeded(r)

SpecWait ==
  /\ InitWait /\ [][NextWait]_vars
  /\ WF_vars(Tick)
  /\ \A r \in Requests : WF_vars(WaitExceeded(r))

\* The registry alone, on every set of registered adapters.
InitRegistry ==
  ClientInit /\ ~cosmosDB /\ GatewayInit /\ ClassifyIdle /\ CiteInit /\ BudgetIdle
    /\ ImageIdle /\ WaitIdle /\ RegistryInit /\ AppIdle /\ VoiceIdle /\ AudioIdle

NextRegistry ==
  \/ \E p \in KnownAdapters : Register(p)
  \/ Serve
  \/ \E id \in ProviderIds : Resolve(id)

SpecRegistry == InitRegistry /\ [][NextRegistry]_vars

\* The application state and the customization panel alone.
InitApp ==
  ClientInit /\ ~cosmosDB /\ GatewayInit /\ ClassifyIdle /\ CiteInit /\ BudgetIdle
    /\ ImageIdle /\ WaitIdle /\ RegistryIdle /\ AppInit /\ VoiceIdle /\ AudioIdle

NextApp ==
  \/ LoadPreferences
  \/ \E list \in AnnouncedLists : FetchFrontendSettings(list)
  \/ \E type \in PanelToggles : Toggle(type)
  \/ handleCloseCustomization
  \/ CloseTimeout
  \/ \E i \in 1..2 : handleLlmProviderChange(i)
  \/ handleResponseSizeChange
  \/ resetToDefaults
  \/ SendRequest

SpecApp == InitApp /\ [][NextApp]_vars

\* The voice hook alone.
InitVoice ==
  ClientInit /\ ~cosmosDB /\ GatewayInit /\ ClassifyIdle /\ CiteInit /\ BudgetIdle
    /\ ImageIdle /\ WaitIdle /\ RegistryIdle /\ AppIdle /\ VoiceInit /\ AudioIdle

NextVoice ==
  \/ RecognitionStart
  \/ RecognitionError
  \/ RecognitionEnd
  \/ WakeWordStart
  \/ \E questionPart \in BOOLEAN : WakeWordDetected(questionPart)
  \/ \E error \in WakeWordErrors : WakeWordError(error)
  \/ WakeWordEnd
  \/ \E tm \in timers : RestartTimeout(tm)
  \/ \E tm \in timers : DetectedTimeout(tm)
  \/ \E tm \in timers : ToggleTimeout(tm)
  \/ \E tm \in timers : SingleClickTimeout(tm)
  \/ startListening
  \/ stopListening
  \/ toggleWakeWord
  \/ toggleWakeWordDouble
  \/ Later

SpecVoice == InitVoice /\ [][NextVoice]_vars

\* Reading aloud, with the microphone button and the recognizers of the voice
\* hook.  The user leaves the microphone alone until a playback has settled, and
\* no playback starts while a click on the microphone is still being handled.
MicrophoneCalm == timers = {} /\ ~clicked

InitAudio ==
  ClientInit /\ ~cosmosDB /\ GatewayInit /\ ClassifyIdle /\ CiteInit /\ BudgetIdle
    /\ ImageIdle /\ WaitIdle /\ RegistryIdle /\ AppIdle /\ VoiceInit /\ AudioInit

NextAudio ==
  \/ RecognitionStart
  \/ RecognitionEnd
  \/ WakeWordStart
  \/ WakeWordEnd
  \/ (AudioSettled /\ toggleWakeWord)
  \/ (AudioSettled /\ toggleWakeWordDouble)
  \/ Later
  \/ \E tm \in timers : ToggleTimeout(tm)
  \/ \E tm \in timers : SingleClickTimeout(tm)
  \/ (MicrophoneCalm /\ playAudio)
  \/ \E res \in SynthesizeResults : SynthesizeResult(res)
  \/ PlayStarted
  \/ AudioEnded
  \/ AudioFails
  \/ stopAudio
  \/ AudioErrorEvent
  \/ PlayRejected
  \/ SegmentsDone
  \/ \E ok \in BOOLEAN : CleanDone(ok)
  \/ UtteranceEnd
  \/ \E tm \in resumeTimers : ResumeTimeout(tm)
  \/ \E tm \in resumeTimers : FreshTimeout(tm)

SpecAudio == InitAudio /\ [][NextAudio]_vars

\* The browser runs every callback that is ready, every fetch settles, and every
\* response body the server opened ends or breaks (the server's timeouts see to
\* that).  Nothing obliges the user to send or to stop.
Fairness ==
  /\ WF_vars(\E t \in Turns : FetchOk(t) \/ FetchReject(t)
                                \/ \E err \in JsonErrors : FetchNotOk(t, err))
  /\ WF_vars(\E t \in Turns : ReadDone(t) \/ ReadFail(t)
                                \/ \E k \in 1..Len(net[t]) : Read(t, k))
  /\ WF_vars(\E t \in Turns : AbortSeen(t))
  /\ WF_vars(RenderEffect)

SpecLive == Spec /\ Fairness

\* ================================================================ properties
Last(seq) == seq[Len(seq)]

RECURSIVE DeltaTexts(_)
DeltaTexts(envs) ==
  IF envs = <<>> THEN <<>>
  ELSE (IF Head(envs).kind = "A" THEN Head(envs).text ELSE <<>>) \o DeltaTexts(Tail(envs))

FirstSt(t) ==
  LoopState(<<>>, NoResult, <<>>, EmptyMsg, EmptyMsg, closureMessages[t], TRUE,
            DefaultErrorResponse, <<>>)

\* The loop state after the lines arrived whole, one line with its newline per read.
RECURSIVE WholeFrom(_, _, _)
WholeFrom(t, st, lines) ==
  IF lines = <<>> \/ st.thrown # "no" THEN st
  ELSE WholeFrom(t,
                 readPass(st, Head(lines) \o <<NL>>, UserMessage(t),
                          Elems(closureMessages[t]), conversationId[t] = 0, cosmosDB),
                 Tail(lines))

WholeArrival(t) == WholeFrom(t, FirstSt(t), sentLines[t])

\* C3: however the lines the server sent were split across reads, once all of
\* them are read the envelopes processed are those processed when every line
\* arrives whole.
C3_FragmentationTransparent ==
  \A t \in Turns :
    (pc[t] = "read" /\ net[t] = <<>>) => processed[t] = WholeArrival(t).proc

\* ------------------------------------------------------------------- C4
\* The kinds of the envelopes in a sequence.
Kinds(envs) == [i \in 1..Len(envs) |-> envs[i].kind]

\* The envelopes with a message among lines, each parsed on its own.
RECURSIVE WellFormed(_)
WellFormed(lines) ==
  IF lines = <<>> THEN <<>>
  ELSE (IF JSONparse(Head(lines)).kind \in {"A", "T"}
        THEN <<JSONparse(Head(lines))>> ELSE <<>>) \o WellFormed(Tail(lines))

\* C4: a line that is no JSON is dropped: once everything sent is read and the
\* turn goes on, every well-formed envelope sent, before or after such a line,
\* was processed, in order.
C4_FragmentDropped ==
  \A t \in Turns :
    (pc[t] = "read" /\ net[t] = <<>>) => Kinds(processed[t]) = Kinds(WellFormed(sentLines[t]))

\* ------------------------------------------------------------------- C6
\* C6: once an in-flight turn is cancelled, its connection is closed, none of
\* its envelopes is processed any more, no fetch is issued for it again, and
\* the only step it takes is the one that ends it as aborted.
C6_CancelStops ==
  [][\A t \in Turns :
       (aborted[t] /\ InFlight(t)) =>
          /\ srv[t] = "aborted"
          /\ fetches'[t] = fetches[t]
          /\ processed'[t] \in {processed[t], <<>>}
          /\ assistantContent'[t] \in {assistantContent[t], <<>>}
          /\ pc'[t] \in {pc[t], "aborted", "nobody"}]_vars

\* Scenario D: cancelled after one envelope was processed, with more in flight.
C6_Witness ==
  \E t \in Turns :
    /\ aborted[t] /\ pc[t] = "read"
    /\ Len(processed[t]) = 1
    /\ net[t] # <<>>
    /\ srv[t] = "aborted"

RECURSIVE Terminals(_)
Terminals(envs) ==
  IF envs = <<>> THEN 0
  ELSE (IF Head(envs).terminal THEN 1 ELSE 0) + Terminals(Tail(envs))

\* C5: a request's normalizer moves only Idle -> Streaming -> Completed or
\* Failed; once Completed or Failed it stays there and emits nothing more; it
\* has emitted exactly one terminal envelope when it is Completed or Failed and
\* none before, and the terminal envelope is the last one.
C5_NormalizerStates ==
  [][\A r \in Requests :
       /\ \/ normState'[r] = normState[r]
          \/ normState[r] = "Idle" /\ normState'[r] = "Streaming"
          \/ normState[r] = "Streaming" /\ normState'[r] \in {"Completed", "Failed"}
       /\ normState[r] \in {"Completed", "Failed"}
            => normState'[r] = normState[r] /\ emitted'[r] = emitted[r]
       /\ Terminals(emitted'[r]) = IF normState'[r] \in {"Completed", "Failed"} THEN 1 ELSE 0
       /\ normState'[r] \in {"Completed", "Failed"}
            => emitted'[r][Len(emitted'[r])].terminal]_vars

\* Scenario A: two deltas and the end gave "Hello", "Hello world" and one
\* terminal envelope with no error.
C5_Witness ==
  \E r \in Requests :
    /\ normState[r] = "Completed"
    /\ emitted[r] = <<Envelope(<<"Hello">>, <<>>, FALSE),
                      Envelope(<<"Hello", " world">>, <<>>, FALSE),
                      Envelope(<<"Hello", " world">>, <<>>, TRUE)>>

\* ------------------------------------------------------------------- C8
\* Rule i of the table matches the failure.
Matches(i, f) ==
  CASE i = 1 -> ~f.transport /\ f.status = 429
    [] i = 2 -> ~f.transport /\ f.status \in {401, 403}
    [] i = 3 -> ~f.transport /\ f.status = 400
    [] i = 4 -> ~f.transport /\ f.status >= 500
    [] i = 5 -> f.transport
    [] i = 6 -> f.quota
    [] i = 7 -> f.policy
    [] OTHER -> TRUE

RuleKinds ==
  <<"RateLimit", "AuthFailure", "BadRequest", "ServerError", "NetworkFailure",
    "QuotaExceeded", "ContentFiltered", "Unknown">>

FirstRule(f) ==
  CHOOSE i \in 1..Len(RuleKinds) : Matches(i, f) /\ \A j \in 1..(i - 1) : ~Matches(j, f)

\* C8: classify gives every failure exactly one kind, the kind of the first
\* rule of the table that matches it; an HTTP 429 is RateLimit whatever markers
\* its body carries.
C8_FirstMatchingRule ==
  classOut # NoClassification =>
    /\ classOut.kind \in ErrorKinds
    /\ classOut.kind = RuleKinds[FirstRule(failureIn)]
    /\ classOut = classify(providerIn, failureIn)
    /\ (~failureIn.transport /\ failureIn.status = 429) => classOut.kind = "RateLimit"

\* An HTTP 429 whose body carries the quota and the content-policy marker was
\* classified RateLimit.
C8_Witness ==
  /\ ~failureIn.transport /\ failureIn.status = 429
  /\ failureIn.quota /\ failureIn.policy
  /\ classOut.kind = "RateLimit"

\* ------------------------------------------------------------------- C9
\* The tokens of a text.
Tokens(text) == {text[i] : i \in 1..Len(text)}

\* The tokens of everything the caller's stream carried for request r.
StreamTokens(r) ==
  UNION {Tokens(emitted[r][i].content) \cup Tokens(emitted[r][i].error) :
           i \in 1..Len(emitted[r])}

\* C9: the userMessage of every classified failure is non-empty and is the
\* template of its kind and provider; two failures of the same kind and
\* provider give the same userMessage and the same text on the page; nothing of
\* the raw vendor text is in the caller's stream or on the page.
C9_NoVendorText ==
  /\ \A r \in Requests :
       classification[r] # NoClassification =>
         /\ classification[r].userMessage # <<>>
         /\ classification[r].userMessage =
              <<Wording[classification[r].kind], classification[r].providerId>>
         /\ emitted[r][Len(emitted[r])].error = classification[r].userMessage
         /\ Tokens(classification[r].rawDetail) \cap StreamTokens(r) = {}
         /\ Tokens(classification[r].rawDetail) \cap Tokens(uiError[r]) = {}
         /\ uiError[r] \in {<<>>, classification[r].userMessage}
  /\ \A r1, r2 \in Requests :
       (/\ classification[r1] # NoClassification
        /\ classification[r2] # NoClassification
        /\ classification[r1].kind = classification[r2].kind
        /\ classification[r1].providerId = classification[r2].providerId)
         => /\ classification[r1].userMessage = classification[r2].userMessage
            /\ (uiError[r1] # <<>> /\ uiError[r2] # <<>>) => uiError[r1] = uiError[r2]

\* Two requests failed with the same kind and provider and different vendor
\* text, and the page shows the same message for both.
C9_Witness ==
  \E r1, r2 \in Requests :
    /\ r1 # r2
    /\ classification[r1].kind = "BadRequest" /\ classification[r2].kind = "BadRequest"
    /\ classification[r1].providerId = classification[r2].providerId
    /\ classification[r1].rawDetail # classification[r2].rawDetail
    /\ uiError[r1] # <<>> /\ uiError[r1] = uiError[r2]

\* ------------------------------------------------------------------ C10
\* The sources cited in the answer that exist, each once, in order of first
\* occurrence.
RECURSIVE FirstSeen(_, _, _)
FirstSeen(docs, ncit, seen) ==
  IF docs = <<>> THEN seen
  ELSE LET src == Number(Head(docs))
       IN FirstSeen(Tail(docs), ncit,
                    IF src >= 1 /\ src <= ncit /\ \A j \in 1..Len(seen) : seen[j] # src
                    THEN Append(seen, src) ELSE seen)

\* The position of a source in a list of sources.
IndexIn(seen, src) == CHOOSE j \in 1..Len(seen) : seen[j] = src

\* The display indices expected in the place of a link.
RECURSIVE ExpectedRefs(_, _, _)
ExpectedRefs(link, ncit, seen) ==
  IF link = <<>> THEN <<>>
  ELSE (IF Number(Head(link)) >= 1 /\ Number(Head(link)) <= ncit
        THEN <<IndexIn(seen, Number(Head(link)))>> ELSE <<>>)
         \o ExpectedRefs(Tail(link), ncit, seen)

\* C10: in a parsed answer every cited source is listed once, the display
\* indices are 1, 2, 3, ... in order of first occurrence, and every reference
\* to a source shows the index of that source.
C10_OneIndexPerSource ==
  parsed.done =>
    LET seen == FirstSeen(Flatten(answer), citations, <<>>)
    IN /\ Len(parsed.citations) = Len(seen)
       /\ \A j \in 1..Len(parsed.citations) :
            /\ parsed.citations[j].source = seen[j]
            /\ parsed.citations[j].reindex_id = j
       /\ \A k \in 1..Len(answer) :
            parsed.answerText[k].refs = ExpectedRefs(answer[k], citations, seen)

\* ------------------------------------------------------------------ C11
\* What the gateway holds for request r.
TurnState(r) ==
  <<normState[r], textBuffer[r], emitted[r], providerOf[r], classification[r],
    cancelled[r], vendorOpen[r]>>

C12_SelectConfigured ==
  /\ \A i \in 1..Len(returned) :
       returned[i].tier \in Tiers =>
         /\ returned[i].maxOutputTokens \in Nat \ {0}
         /\ returned[i].maxOutputTokens = env[returned[i].provider, returned[i].tier]
  /\ \A i, j \in 1..Len(returned) :
       (returned[i].provider = returned[j].provider /\ returned[i].tier = returned[j].tier)
         => returned[i].maxOutputTokens = returned[j].maxOutputTokens

\* Scenario C: veryShort was selected twice for a provider whose veryShort
\* ceiling differs from its other ceilings, and both calls gave that ceiling.
C12_Witness ==
  /\ Len(returned) = 2
  /\ returned[1].tier = "veryShort" /\ returned[2].tier = "veryShort"
  /\ returned[1].provider = returned[2].provider
  /\ returned[1].maxOutputTokens = env[returned[1].provider, "veryShort"]
  /\ returned[2].maxOutputTokens = returned[1].maxOutputTokens
  /\ env[returned[1].provider, "normal"] # returned[1].maxOutputTokens
  /\ env[returned[1].provider, "comprehensive"] # returned[1].maxOutputTokens

\* ------------------------------------------------------------------ C13
\* C13: when a provider lacks one of its three token settings the process does
\* not run: it is starting or has failed, it has accepted no request, and no
\* request ever fails on a missing setting.
C13_FailsAtStart ==
  /\ (\E x \in Providers \X Tiers : env[x] = Missing)
       => proc \in {"boot", "failed"} /\ returned = <<>>
  /\ ~requestFailed
  /\ proc = "failed" => \E x \in Providers \X Tiers : env[x] = Missing

\* One provider lacks exactly one setting, and the process failed at start.
C13_Witness ==
  /\ proc = "failed"
  /\ Cardinality({x \in Providers \X Tiers : env[x] = Missing}) = 1

\* ------------------------------------------------------------------ C14
\* The number of messages of a role in a sequence of messages.
RECURSIVE CountRole(_, _)
CountRole(ms, role) ==
  IF ms = <<>> THEN 0
  ELSE (IF Head(ms).role = role THEN 1 ELSE 0) + CountRole(Tail(ms), role)

\* The number of envelopes of a kind in a sequence of envelopes.
RECURSIVE CountKind(_, _)
CountKind(envs, kind) ==
  IF envs = <<>> THEN 0
  ELSE (IF Head(envs).kind = kind THEN 1 ELSE 0) + CountKind(Tail(envs), kind)

\* C14: while a turn that got a tool result is being read, the page shows the
\* tool result as a message of role tool directly before the assistant message
\* of the turn, and shows a tool message for every tool result the turn got.
C14_ToolBeforeAssistant ==
  \A t \in Turns :
    (pc[t] = "read" /\ CountKind(processed[t], "T") > 0) =>
      LET shown == Elems(messages)
          n == Len(shown)
      IN /\ n >= 2
         /\ shown[n - 1].role = TOOL
         /\ shown[n] = assistantMessage[t]
         /\ CountRole(shown, TOOL) >= CountKind(processed[t], "T")

\* ------------------------------------------------------------------ C15
\* C15: the messages of every request sent are not empty and the last of them
\* is the user's message of the turn.
C15_RequestEndsWithUser ==
  \A t \in Turns :
    /\ InFlight(t) => request[t] # <<>>
    /\ request[t] # <<>> =>
         /\ Last(request[t]).role = USER
         /\ Last(request[t]) = UserMessage(t)

\* The second turn of a conversation whose first turn failed: the request
\* carries both questions, without the error message, and ends with the second.
C15_Witness ==
  \E t \in Turns :
    /\ pc[t] = "fetch"
    /\ Len(request[t]) = 2
    /\ request[t][1].role = USER
    /\ \E i \in 1..Len(convs[conversation[t]]) : convs[conversation[t]][i].role = ERROR

\* ------------------------------------------------------------------ C16
Roles == {USER, ASSISTANT, TOOL, ERROR}

\* C16: every message of every conversation's message list has one of the four
\* roles and a content that is not empty.
C16_MessagesWellFormed ==
  \A c \in Turns :
    \A i \in 1..Len(convs[c]) :
      /\ convs[c][i].role \in Roles
      /\ convs[c][i].content # <<>>

\* ------------------------------------------------------------------ C17
\* C17: a request with an image part that went to a provider without image
\* input failed with a classified error of kind BadRequest; no request was
\* served with its image left out.
C17_ImageFailsFast ==
  [][sent # NoRequest /\ sent' = NoRequest =>
       /\ (sent.image /\ ~supportsImages(sent.provider))
            => reply'.state = "failed" /\ reply'.kind = "BadRequest"
       /\ reply'.state = "served" => reply'.image = sent.image]_vars

\* A conversation got an image while the provider took images; the provider
\* was changed to one that takes none, and the next question failed as a
\* BadRequest.
C17_Witness ==
  /\ historyHasImage
  /\ ~supportsImages(llmProvider)
  /\ nsends = 2
  /\ reply.state = "failed" /\ reply.kind = "BadRequest"

HasError(ms) == \E i \in 1..Len(ms) : ms[i].role = ERROR

C22_FailureShowsError ==
  [][\A t \in Turns :
       (InFlight(t) /\ ~aborted[t] /\ pc'[t] \in {"failed", "nobody"})
         => HasError(ElemsIn(messages', convs'))]_vars

RECURSIVE AnswerTexts(_)
AnswerTexts(envs) ==
  IF envs = <<>> THEN <<>>
  ELSE (IF Head(envs).kind = "A" THEN <<Head(envs).text>> ELSE <<>>)
         \o AnswerTexts(Tail(envs))

IsPrefix(a, b) == Len(a) <= Len(b) /\ SubSeq(b, 1, Len(a)) = a

\* Every assistant envelope carries the answer so far: it extends the one before.
CarryFullAnswer(envs) ==
  LET texts == AnswerTexts(envs)
  IN \A i \in 1..(Len(texts) - 1) : IsPrefix(texts[i], texts[i + 1])

\* C24: when the assistant envelopes of a turn each carry the full accumulated
\* answer, the assistant message shown after an envelope has the content of
\* the last assistant envelope processed.
C24_ShowsLatestEnvelope ==
  \A t \in Turns :
    (pc[t] = "read" /\ AnswerTexts(processed[t]) # <<>> /\ CarryFullAnswer(processed[t]))
      => Last(Elems(messages)) = Msg(ASSISTANT, Last(AnswerTexts(processed[t])))

\* ------------------------------------------------------------------ C25
\* C25: historyUpdate is called only for a current conversation whose message
\* list has no error-role message, so no list given to it has one.
C25_ErrorNeverSaved ==
  /\ [][historyUpdates' # historyUpdates =>
          /\ ~HasError(convs[currentChat])
          /\ Last(historyUpdates') = convs[currentChat]]_vars
  /\ [](\A i \in 1..Len(historyUpdates) : ~HasError(historyUpdates[i]))

\* The first turn of the conversation was saved; its second turn failed, the
\* conversation has the error message, the effect has run and saved nothing.
C25_Witness ==
  /\ cosmosDB
  /\ pc[1] = "completed" /\ pc[2] = "failed"
  /\ currentChat = 1 /\ HasError(convs[1])
  /\ ~effectDue /\ processMessages = messageStatus.NotRunning
  /\ Len(historyUpdates) = 1

\* ------------------------------------------------------------------ C26
\* C26: at most one of the chat-history panel, the help panel and the
\* customization panel is open.
C26_OnePanelOpen ==
  Cardinality({f \in {"isChatHistoryOpen", "isHelpPanelOpen", "isCustomizationPanelOpen"} :
                 appState[f]}) <= 1

\* The help panel was opened while the customization panel was open: the
\* help panel alone is open now.
C26_Witness ==
  /\ appState.isHelpPanelOpen
  /\ ~appState.isCustomizationPanelOpen /\ ~appState.isChatHistoryOpen
  /\ panelLlmProvider = "none" /\ closeTimers > 0

\* ------------------------------------------------------------------ C27
\* C27: once the user has closed the customization panel and every close
\* timeout has fired, the panel is closed.
C27_ClosedAfterDelay ==
  (closeAsked /\ closeTimers = 0) => ~appState.isCustomizationPanelOpen

\* ------------------------------------------------------------------ C29
\* C29: the provider sent with a request is one of the providers the backend
\* announced in available_llm_providers.
C29_ProviderAnnounced ==
  requestProvider # "none" =>
    \E i \in 1..Len(appState.frontendSettings.available_llm_providers) :
      appState.frontendSettings.available_llm_providers[i] = requestProvider

\* ------------------------------------------------------------------ C28
\* C28: a request whose messages have an image part goes out only while the
\* selected provider is one of CLAUDE, GEMINI and OPENAI_DIRECT.
C28_NoImageToOthers ==
  (sent # NoRequest /\ sent.image) => sent.provider \in {"CLAUDE", "GEMINI", "OPENAI_DIRECT"}

\* ------------------------------------------------------------------- C30
\* C30: manual speech recognition and wake-word recognition are never active at
\* the same time, whatever the order of clicks, recognition events and restart
\* timers.  A recognition is active when the hook reports it (isListening,
\* isWakeWordListening) and its recognizer has started and not been stopped.
ManualActive == isListening /\ recognition = "running"
WakeWordActive == isWakeWordListening /\ wakeWordRecognition = "running"

C30_NeverBothActive == ~(ManualActive /\ WakeWordActive)

\* ------------------------------------------------------------------- C33
\* A click on the microphone, single or double.
Click == toggleWakeWord \/ toggleWakeWordDouble

C31_SilentWhileReading ==
  ReadingAloud => (recognition # "running" /\ wakeWordRecognition # "running")

\* ------------------------------------------------------------------- C34
\* C34: the fallback to browser speech never starts from a manual stop: when
\* playAudioWithBrowser is entered from the handlers of the Azure playback, the
\* audio has not been stopped by stopAudio.
C34_NoFallbackOnManualStop ==
  [][(browser = "none" /\ browser' = "clean") => audio # "stopped"]_vars

\* ------------------------------------------------------------------- C32
\* C32: when a playback and the resume that follows it have settled, the wake
\* word is started again if it was listening when the playback started and the
\* wake-word mode is still on; and the resume starts the wake word only if it
\* was listening when the playback started.
C32_WakeWordResumed ==
  /\ [][(~AudioSettled /\ AudioSettled' /\ resumeOwed /\ wakeWordMode')
          => wakeWordRecognition' \in {"starting", "running"}]_vars
  /\ [][(\E tm \in resumeTimers : tm.kind = "fresh" /\ tm \notin resumeTimers'
                                    /\ wakeWordRecognition' # wakeWordRecognition)
          => resumeOwed]_vars

====
